---- MODULE Spec2Model ----
(***************************************************************************)
(* PlcComSClient (src/plccoms.py): an asyncio client for the line-oriented *)
(* PlcComS protocol.  The model follows the cooperative scheduling of      *)
(* asyncio: one step of the model is the code a task runs between two      *)
(* suspension points (await of I/O, of a sleep, of a future or of a task). *)
(* Text is a tuple of one-character strings.                               *)
(***************************************************************************)
EXTENDS Integers, Sequences, FiniteSets, TLC

(***************************************************************************)
(* Text helpers (Python str operations used by the client).                *)
(***************************************************************************)
CR == "\r"
LF == "\n"
LINE_TERMINATOR == <<CR, LF>>

UpperChars == <<"A","B","C","D","E","F","G","H","I","J","K","L","M",
                "N","O","P","Q","R","S","T","U","V","W","X","Y","Z">>
LowerChars == <<"a","b","c","d","e","f","g","h","i","j","k","l","m",
                "n","o","p","q","r","s","t","u","v","w","x","y","z">>
DigitChars == <<"0","1","2","3","4","5","6","7","8","9">>
Whitespace == {" ", "\t", CR, LF}

\* index of ch in the tuple t, 0 when absent
RECURSIVE PosIn(_, _, _)
PosIn(ch, t, i) ==
  IF i > Len(t) THEN 0
  ELSE IF t[i] = ch THEN i ELSE PosIn(ch, t, i + 1)

\* str.upper() / str.lower() on one character
UpperCh(ch) ==
  LET p == PosIn(ch, LowerChars, 1) IN IF p = 0 THEN ch ELSE UpperChars[p]
LowerCh(ch) ==
  LET p == PosIn(ch, UpperChars, 1) IN IF p = 0 THEN ch ELSE LowerChars[p]
Upper(s) == [i \in 1..Len(s) |-> UpperCh(s[i])]
Lower(s) == [i \in 1..Len(s) |-> LowerCh(s[i])]

\* does sub occur in s at position i
StartsAt(s, sub, i) ==
  /\ i + Len(sub) - 1 <= Len(s)
  /\ \A j \in 1..Len(sub) : s[i + j - 1] = sub[j]

\* str.find: first position of sub in s at or after i, 0 when absent
RECURSIVE FindFrom(_, _, _)
FindFrom(s, sub, i) ==
  IF i + Len(sub) - 1 > Len(s) THEN 0
  ELSE IF StartsAt(s, sub, i) THEN i ELSE FindFrom(s, sub, i + 1)
Contains(s, sub) == FindFrom(s, sub, 1) # 0

\* str.rfind: last position of sub in s at or before i, 0 when absent
RECURSIVE RFindFrom(_, _, _)
RFindFrom(s, sub, i) ==
  IF i < 1 THEN 0
  ELSE IF StartsAt(s, sub, i) THEN i ELSE RFindFrom(s, sub, i - 1)

\* s.split(sep, 1) for a sep that occurs in s: <<head, tail>>
SplitOnce(s, sep) ==
  LET p == FindFrom(s, sep, 1)
  IN <<SubSeq(s, 1, p - 1), SubSeq(s, p + Len(sep), Len(s))>>

\* s.rsplit(sep, 1) for a sep that occurs in s: <<head, tail>>
RSplitOnce(s, sep) ==
  LET p == RFindFrom(s, sep, Len(s))
  IN <<SubSeq(s, 1, p - 1), SubSeq(s, p + Len(sep), Len(s))>>

RECURSIVE LStrip(_)
LStrip(s) ==
  IF s # <<>> /\ s[1] \in Whitespace THEN LStrip(Tail(s)) ELSE s
RECURSIVE RStrip(_)
RStrip(s) ==
  IF s # <<>> /\ s[Len(s)] \in Whitespace
  THEN RStrip(SubSeq(s, 1, Len(s) - 1)) ELSE s
\* str.strip()
Strip(s) == RStrip(LStrip(s))

\* str.rstrip("*")
RECURSIVE RStripStar(_)
RStripStar(s) ==
  IF s # <<>> /\ s[Len(s)] = "*"
  THEN RStripStar(SubSeq(s, 1, Len(s) - 1)) ELSE s

(***************************************************************************)
(* Values: the dynamically typed Python value of a variable, as a tagged   *)
(* record.  t is the Python type; i holds a bool (0/1) or an int, or the   *)
(* digits of a float with d the number of fractional digits (the float is  *)
(* i / 10^d, normalised); s holds the characters of a str.                 *)
(***************************************************************************)
NoneVal     == [t |-> "none",  i |-> 0, d |-> 0, s |-> <<>>]
BoolVal(b)  == [t |-> "bool",  i |-> IF b THEN 1 ELSE 0, d |-> 0, s |-> <<>>]
IntVal(n)   == [t |-> "int",   i |-> n, d |-> 0, s |-> <<>>]
FloatVal(m, k) == [t |-> "float", i |-> m, d |-> k, s |-> <<>>]
StrVal(x)   == [t |-> "str",   i |-> 0, d |-> 0, s |-> x]

IsDigits(s) == s # <<>> /\ \A j \in 1..Len(s) : PosIn(s[j], DigitChars, 1) # 0
AllDigits(s) == \A j \in 1..Len(s) : PosIn(s[j], DigitChars, 1) # 0

RECURSIVE DigitsVal(_)
DigitsVal(s) ==
  IF s = <<>> THEN 0
  ELSE 10 * DigitsVal(SubSeq(s, 1, Len(s) - 1))
       + (PosIn(s[Len(s)], DigitChars, 1) - 1)

\* the text after an optional sign, and the sign
Unsigned(s) == IF s # <<>> /\ s[1] \in {"+", "-"} THEN Tail(s) ELSE s
SignOf(s)   == IF s # <<>> /\ s[1] = "-" THEN -1 ELSE 1

\* int(text): [ok, v]; ok = FALSE stands for ValueError.  int() takes an
\* optional sign and decimal digits, with single "_" between digits
ParseInt(s) ==
  LET u == Unsigned(s)
      n == Len(u)
      grouped == /\ n > 0
                 /\ \A j \in 1..n :
                      \/ PosIn(u[j], DigitChars, 1) # 0
                      \/ /\ u[j] = "_" /\ 1 < j /\ j < n
                         /\ PosIn(u[j - 1], DigitChars, 1) # 0
                         /\ PosIn(u[j + 1], DigitChars, 1) # 0
      digits == SelectSeq(u, LAMBDA ch : ch # "_")
  IN IF grouped
     THEN [ok |-> TRUE, v |-> IntVal(SignOf(s) * DigitsVal(digits))]
     ELSE [ok |-> FALSE, v |-> NoneVal]

RECURSIVE RStripZeros(_)
RStripZeros(s) ==
  IF s # <<>> /\ s[Len(s)] = "0"
  THEN RStripZeros(SubSeq(s, 1, Len(s) - 1)) ELSE s

\* float(text) for a text holding ".": decimal notation; texts with an
\* exponent or with "_" are outside the inputs of the specifications
ParseFloat(s) ==
  LET u    == Unsigned(s)
      p    == SplitOnce(u, <<".">>)
      frac == RStripZeros(p[2])
  IN IF AllDigits(p[1]) /\ AllDigits(p[2]) /\ (p[1] \o p[2]) # <<>>
     THEN [ok |-> TRUE,
           v  |-> FloatVal(SignOf(s) * DigitsVal(p[1] \o frac), Len(frac))]
     ELSE [ok |-> FALSE, v |-> NoneVal]

\* a parse that does not trim the raw text first
ParseValueNoTrim(raw) ==
  LET r == raw
      n == Len(r)
  IN IF n >= 1 /\ r[1] = "\"" /\ r[n] = "\""
     THEN StrVal(SubSeq(r, 2, n - 1))
     ELSE IF Lower(r) = <<"t","r","u","e">> THEN BoolVal(TRUE)
     ELSE IF Lower(r) = <<"f","a","l","s","e">> THEN BoolVal(FALSE)
     ELSE LET num == IF Contains(r, <<".">>) THEN ParseFloat(r)
                     ELSE ParseInt(r)
          IN IF num.ok THEN num.v ELSE StrVal(r)

\* PlcComSClient._parse_value
_parse_value(raw) ==
  LET r == Strip(raw)
      n == Len(r)
  IN IF n >= 1 /\ r[1] = "\"" /\ r[n] = "\""
     THEN StrVal(SubSeq(r, 2, n - 1))
     ELSE IF Lower(r) = <<"t","r","u","e">> THEN BoolVal(TRUE)
     ELSE IF Lower(r) = <<"f","a","l","s","e">> THEN BoolVal(FALSE)
     ELSE LET num == IF Contains(r, <<".">>) THEN ParseFloat(r)
                     ELSE ParseInt(r)
          IN IF num.ok THEN num.v ELSE StrVal(r)

RECURSIVE NatText(_)
NatText(n) ==
  IF n < 10 THEN <<DigitChars[n + 1]>>
  ELSE NatText(n \div 10) \o <<DigitChars[(n % 10) + 1]>>
\* str(int)
IntText(n) == IF n < 0 THEN <<"-">> \o NatText(-n) ELSE NatText(n)

RECURSIVE Pow10(_)
Pow10(k) == IF k = 0 THEN 1 ELSE 10 * Pow10(k - 1)
RECURSIVE ZeroPad(_, _)
ZeroPad(s, k) == IF Len(s) >= k THEN s ELSE ZeroPad(<<"0">> \o s, k)
\* str(float) in decimal notation (repr of i / 10^d)
FloatText(m, k) ==
  LET a == IF m < 0 THEN -m ELSE m
      whole == NatText(a \div Pow10(k))
      frac  == IF k = 0 THEN <<"0">> ELSE ZeroPad(NatText(a % Pow10(k)), k)
  IN (IF m < 0 THEN <<"-">> ELSE <<>>) \o whole \o <<".">> \o frac

\* a format that writes a string without the quotes
FormatValueNoQuotes(value) ==
  IF value.t = "bool"
  THEN (IF value.i = 1 THEN <<"t","r","u","e">> ELSE <<"f","a","l","s","e">>)
  ELSE IF value.t = "str" THEN value.s
  ELSE IF value.t = "int" THEN IntText(value.i)
  ELSE IF value.t = "float" THEN FloatText(value.i, value.d)
  ELSE <<"N","o","n","e">>

\* PlcComSClient._format_value
_format_value(value) ==
  IF value.t = "bool"
  THEN (IF value.i = 1 THEN <<"t","r","u","e">> ELSE <<"f","a","l","s","e">>)
  ELSE IF value.t = "str" THEN <<"\"">> \o value.s \o <<"\"">>
  ELSE IF value.t = "int" THEN IntText(value.i)
  ELSE IF value.t = "float" THEN FloatText(value.i, value.d)
  ELSE <<"N","o","n","e">>

(***************************************************************************)
(* Python dict and list helpers.  A dict whose iteration order matters     *)
(* (_callbacks) is a sequence of [k, v] items in insertion order; the      *)
(* other dicts are functions on their key set.                             *)
(***************************************************************************)
Put(f, k, v) == [x \in (DOMAIN f) \cup {k} |-> IF x = k THEN v ELSE f[x]]
Del(f, k)    == [x \in (DOMAIN f) \ {k} |-> f[x]]
EmptyDict    == [x \in {} |-> 0]

RECURSIVE ItemPos(_, _, _)
ItemPos(items, k, i) ==
  IF i > Len(items) THEN 0
  ELSE IF items[i].k = k THEN i ELSE ItemPos(items, k, i + 1)
HasKey(items, k) == ItemPos(items, k, 1) # 0
Lookup(items, k) == items[ItemPos(items, k, 1)].v
Keys(items)      == [i \in 1..Len(items) |-> items[i].k]
\* items[k].append(x), creating items[k] = [] first when k is missing
AppendTo(items, k, x) ==
  IF HasKey(items, k)
  THEN [i \in 1..Len(items) |->
          IF items[i].k = k THEN [k |-> k, v |-> Append(items[i].v, x)]
          ELSE items[i]]
  ELSE Append(items, [k |-> k, v |-> <<x>>])
\* items.pop(k, None)
PopKey(items, k) ==
  LET p == ItemPos(items, k, 1)
  IN IF p = 0 THEN items
     ELSE SubSeq(items, 1, p - 1) \o SubSeq(items, p + 1, Len(items))
\* list.remove(x): drops the first occurrence (ValueError is swallowed)
RemoveFirst(l, x) ==
  LET p == PosIn(x, l, 1)
  IN IF p = 0 THEN l ELSE SubSeq(l, 1, p - 1) \o SubSeq(l, p + 1, Len(l))

(***************************************************************************)
(* Futures.  Each caller task owns at most one request future at a time,   *)
(* so a future is named by the caller that created it.                     *)
(***************************************************************************)
NoFuture == [st |-> "none", v |-> NoneVal, exc |-> "", var_list |-> <<>>]
NewFuture == [NoFuture EXCEPT !.st = "pending"]
FutDone(f) == f.st \in {"result", "exception", "cancelled"}
set_result(f, v)      == [f EXCEPT !.st = "result", !.v = v]
set_exception(f, e)   == [f EXCEPT !.st = "exception", !.exc = e]
cancel(f)             == [f EXCEPT !.st = "cancelled"]

\* correlation keys of _pending_responses
KeyGET(name) == <<"G","E","T",":">> \o name
KeyLIST      == <<"L","I","S","T">>
KeyGETINFO   == <<"G","E","T","I","N","F","O">>
\* the error slot taken for the slot of get_variable("A")
KeyErrorIsGetA == <<"G","E","T",":","A">>
KeyError     == <<"e","r","r","o","r">>

(***************************************************************************)
(* State of the client and of its tasks.                                   *)
(***************************************************************************)
VARIABLES
  _connected,          \* self._connected
  _reconnect_enabled,  \* self._reconnect_enabled
  _reader,             \* self._reader: 0 (None) or a connection number
  _writer,             \* self._writer: 0 (None) or a connection number
  _read_task,          \* self._read_task: 0 (None) or an index of rtask
  _reconnect_task,     \* self._reconnect_task: 0 (None) or an index of ctask
  _buffer,             \* self._buffer
  _variables,          \* self._variables
  _pending_responses,  \* self._pending_responses: key -> owner of the future
  _callbacks,          \* self._callbacks, in insertion order
  _global_callbacks,   \* self._global_callbacks
  fut,                 \* the request future of each caller
  rtask,               \* the _read_loop tasks ever created
  ctask,               \* the _reconnect_loop tasks ever created
  pc,                  \* where each caller task is suspended
  arg,                 \* the argument of the caller's running operation
  ret,                 \* how the operation that ended in the last step ended
  conn,                \* the TCP connections ever opened, by number
  wire,                \* data of the write() calls of the step just taken
  calls,               \* callback dispatches made in the last step
  recv,                \* the chunk read() returned in the last step
  ops,                 \* operations the callers may still start
  rx                   \* chunks the PLC may still send

vars == <<_connected, _reconnect_enabled, _reader, _writer, _read_task,
          _reconnect_task, _buffer, _variables, _pending_responses,
          _callbacks, _global_callbacks, fut, rtask, ctask, pc, arg, ret,
          conn, wire, calls, recv, ops, rx>>

\* the caller tasks
Callers == {"c1", "c2"}
CallerBefore(x, c) == x = "c1" /\ c = "c2"

NoArg == [name |-> <<>>, conn |-> 0]
NoRet == [op |-> "", name |-> <<>>, kind |-> "", v |-> NoneVal,
          list |-> <<>>]
NoRets == [c \in Callers |-> NoRet]
Ret(op, kind) == [NoRet EXCEPT !.op = op, !.kind = kind]

\* callbacks are opaque functions; the ones in Raising raise when called
Raising == {"bad"}

(***************************************************************************)
(* Response handlers.  They run inside the receive loop without            *)
(* suspending (the response lock is never held across an await, so         *)
(* "async with self._response_lock" never waits).  A handler maps the      *)
(* record h = [vars, pend, fut, calls, exc] to its new value; exc is the   *)
(* exception that escapes the handler ("" for none).                       *)
(***************************************************************************)

\* a dispatch loop without the try/except: a raising callback ends it
RECURSIVE RunCallbacksNoCatch(_, _, _)
RunCallbacksNoCatch(cbs, i, r) ==
  IF i > Len(cbs) \/ r.exc # "" THEN r
  ELSE RunCallbacksNoCatch(cbs, i + 1,
         [r EXCEPT !.invoked = Append(@, cbs[i]),
                   !.exc = IF cbs[i] \in Raising THEN "Exception" ELSE ""])

\* one "for callback in ...: try: callback() except Exception: log" loop:
\* r = [invoked, exc]
RECURSIVE RunCallbacks(_, _, _)
RunCallbacks(cbs, i, r) ==
  IF i > Len(cbs) \/ r.exc # "" THEN r
  ELSE \* an exception raised by cbs[i] is caught and logged: exc stays ""
       RunCallbacks(cbs, i + 1, [r EXCEPT !.invoked = Append(@, cbs[i])])

\* what client.variables holds under var_name while the callbacks of an
\* update run (None for a name that is not cached)
Cached(h, var_name) ==
  IF var_name \in DOMAIN h.vars THEN h.vars[var_name] ELSE NoneVal

\* a dispatch that runs the global callbacks first
NotifyGlobalFirst(h, var_name, value) ==
  LET own == IF HasKey(_callbacks, var_name)
             THEN Lookup(_callbacks, var_name) ELSE <<>>
  IN [h EXCEPT !.calls = Append(@, [name |-> var_name, value |-> value,
                                    seen |-> Cached(h, var_name),
                                    invoked |-> _global_callbacks \o own])]

\* PlcComSClient._notify_callbacks
_notify_callbacks(h, var_name, value) ==
  LET own == IF HasKey(_callbacks, var_name)
             THEN Lookup(_callbacks, var_name) ELSE <<>>
      r1  == RunCallbacks(own, 1, [invoked |-> <<>>, exc |-> ""])
      r2  == RunCallbacks(_global_callbacks, 1, r1)
  IN [h EXCEPT !.calls = Append(@, [name |-> var_name, value |-> value,
                                    seen |-> Cached(h, var_name),
                                    invoked |-> r2.invoked]),
               !.exc = r2.exc]

\* PlcComSClient._handle_get_response
_handle_get_response(h, params) ==
  IF ~Contains(params, <<",">>) THEN h
  ELSE LET p        == SplitOnce(params, <<",">>)
           var_name == p[1]
           value    == _parse_value(p[2])
           key      == KeyGET(var_name)
           h1 == [h EXCEPT !.vars = Put(@, var_name, value)]
           h2 == IF key \in DOMAIN h1.pend
                 THEN LET c == h1.pend[key]
                      IN [h1 EXCEPT !.pend = Del(@, key),
                                    !.fut[c] = IF FutDone(@) THEN @
                                               ELSE set_result(@, value)]
                 ELSE h1
       IN _notify_callbacks(h2, var_name, value)

\* a DIFF handler that completes the pending request like GET does
HandleDiffLikeGet(h, params) == _handle_get_response(h, params)

\* a DIFF handler that runs the callbacks before it stores the value
HandleDiffNotifiesFirst(h, params) ==
  IF ~Contains(params, <<",">>) THEN h
  ELSE LET p        == SplitOnce(params, <<",">>)
           var_name == p[1]
           value    == _parse_value(p[2])
           h1 == _notify_callbacks(h, var_name, value)
       IN [h1 EXCEPT !.vars = Put(@, var_name, value)]

\* PlcComSClient._handle_diff_response
_handle_diff_response(h, params) ==
  IF ~Contains(params, <<",">>) THEN h
  ELSE LET p        == SplitOnce(params, <<",">>)
           var_name == p[1]
           value    == _parse_value(p[2])
           h1 == [h EXCEPT !.vars = Put(@, var_name, value)]
       IN _notify_callbacks(h1, var_name, value)

\* _handle_list_response that stores None for a name already cached
HandleListResetsValue(h, params0) ==
  LET params == Strip(params0)
  IN IF params = <<>> THEN h
     ELSE LET comma    == Contains(params, <<",">>)
              var_name == IF comma THEN RSplitOnce(params, <<",">>)[1]
                          ELSE params
              var_type == IF comma
                          THEN RStripStar(RSplitOnce(params, <<",">>)[2])
                          ELSE <<"U","N","K","N","O","W","N">>
              h1 == [h EXCEPT !.vars = Put(@, var_name, NoneVal)]
          IN IF KeyLIST \in DOMAIN h1.pend
             THEN [h1 EXCEPT !.fut[h1.pend[KeyLIST]].var_list =
                     Append(@, [name |-> var_name, type |-> var_type])]
             ELSE h1

\* PlcComSClient._handle_list_response
_handle_list_response(h, params0) ==
  LET params == Strip(params0)
  IN IF params = <<>> THEN h
     ELSE LET comma    == Contains(params, <<",">>)
              var_name == IF comma THEN RSplitOnce(params, <<",">>)[1]
                          ELSE params
              var_type == IF comma
                          THEN RStripStar(RSplitOnce(params, <<",">>)[2])
                          ELSE <<"U","N","K","N","O","W","N">>
              h1 == IF var_name \in DOMAIN h.vars THEN h
                    ELSE [h EXCEPT !.vars = Put(@, var_name, NoneVal)]
          IN IF KeyLIST \in DOMAIN h1.pend
             THEN [h1 EXCEPT !.fut[h1.pend[KeyLIST]].var_list =
                     Append(@, [name |-> var_name, type |-> var_type])]
             ELSE h1

\* PlcComSClient._handle_getinfo_response
_handle_getinfo_response(h, params) ==
  IF KeyGETINFO \in DOMAIN h.pend
  THEN LET c == h.pend[KeyGETINFO]
       IN [h EXCEPT !.pend = Del(@, KeyGETINFO),
                    !.fut[c] = IF FutDone(@) THEN @
                               ELSE set_result(@, StrVal(params))]
  ELSE h

\* _process_response without the check for a colon: unpacking the split
\* of such a line raises ValueError
ProcessResponseNoColonRaises(h, line) ==
  IF ~Contains(line, <<":">>) THEN [h EXCEPT !.exc = "ValueError"]
  ELSE LET p      == SplitOnce(line, <<":">>)
           cmd    == Upper(p[1])
           params == p[2]
       IN IF cmd = <<"G","E","T">> THEN _handle_get_response(h, params)
          ELSE IF cmd = <<"D","I","F","F">>
            THEN _handle_diff_response(h, params)
          ELSE IF cmd = <<"L","I","S","T">>
            THEN _handle_list_response(h, params)
          ELSE IF cmd = <<"E","R","R","O","R">>
            THEN IF KeyError \in DOMAIN h.pend
                 THEN LET c == h.pend[KeyError]
                      IN [h EXCEPT !.pend = Del(@, KeyError),
                                   !.fut[c] =
                                     IF FutDone(@) THEN @
                                     ELSE set_exception(@, "ProtocolError")]
                 ELSE h
          ELSE IF cmd = <<"W","A","R","N","I","N","G">> THEN h
          ELSE IF cmd = <<"G","E","T","I","N","F","O">>
            THEN _handle_getinfo_response(h, params)
          ELSE h

\* PlcComSClient._process_response
_process_response(h, line) ==
  IF ~Contains(line, <<":">>) THEN h
  ELSE LET p      == SplitOnce(line, <<":">>)
           cmd    == Upper(p[1])
           params == p[2]
       IN IF cmd = <<"G","E","T">> THEN _handle_get_response(h, params)
          ELSE IF cmd = <<"D","I","F","F">>
            THEN _handle_diff_response(h, params)
          ELSE IF cmd = <<"L","I","S","T">>
            THEN _handle_list_response(h, params)
          ELSE IF cmd = <<"E","R","R","O","R">>
            THEN IF KeyError \in DOMAIN h.pend
                 THEN LET c == h.pend[KeyError]
                      IN [h EXCEPT !.pend = Del(@, KeyError),
                                   !.fut[c] =
                                     IF FutDone(@) THEN @
                                     ELSE set_exception(@, "ProtocolError")]
                 ELSE h
          ELSE IF cmd = <<"W","A","R","N","I","N","G">> THEN h
          ELSE IF cmd = <<"G","E","T","I","N","F","O">>
            THEN _handle_getinfo_response(h, params)
          ELSE h

(***************************************************************************)
(* The code between two suspension points runs atomically.  It is written  *)
(* as a function on the record s of everything such code can change; an    *)
(* action takes Cur, applies the code and commits the result.              *)
(***************************************************************************)
Cur ==
  [connected |-> _connected, reconnect_enabled |-> _reconnect_enabled,
   reader |-> _reader, writer |-> _writer, read_task |-> _read_task,
   reconnect_task |-> _reconnect_task, buffer |-> _buffer,
   vars |-> _variables, pend |-> _pending_responses, fut |-> fut,
   rtask |-> rtask, ctask |-> ctask, conn |-> conn, wire |-> <<>>,
   calls |-> <<>>, recv |-> <<>>, exc |-> ""]

Commit(s) ==
  /\ _connected' = s.connected
  /\ _reconnect_enabled' = s.reconnect_enabled
  /\ _reader' = s.reader
  /\ _writer' = s.writer
  /\ _read_task' = s.read_task
  /\ _reconnect_task' = s.reconnect_task
  /\ _buffer' = s.buffer
  /\ _variables' = s.vars
  /\ _pending_responses' = s.pend
  /\ fut' = s.fut
  /\ rtask' = s.rtask
  /\ ctask' = s.ctask
  /\ conn' = s.conn
  /\ wire' = s.wire
  /\ calls' = s.calls
  /\ recv' = s.recv

\* bounds of the model
MaxConn == 2   \* connections opened in one behaviour
MaxOps  == 3   \* operations started by callers in one behaviour
MaxRecv == 2   \* chunks received from the PLC in one behaviour

NewReadTask == [st |-> "start", conn |-> 0, cancel |-> FALSE]
NewReconnectTask ==
  [st |-> "start", conn |-> 0, cancel |-> FALSE, it |-> 0, size |-> 0,
   exc |-> "", failed |-> FALSE]

\* the futures in the pending table that are not done get the exception e
RECURSIVE FailAll(_, _, _)
FailAll(f, owners, e) ==
  IF owners = {} THEN f
  ELSE LET c == CHOOSE x \in owners : TRUE
       IN FailAll([f EXCEPT ![c] = IF FutDone(@) THEN @
                                   ELSE set_exception(@, e)],
                  owners \ {c}, e)
Owners(pend) == {pend[k] : k \in DOMAIN pend}

\* a disconnect handler that starts a reconnection task whatever
\* _reconnect_enabled says
HandleDisconnectAlwaysReconnects(s) ==
  LET s1 == [s EXCEPT !.connected = FALSE]
      s2 == IF s1.writer # 0
            THEN [s1 EXCEPT !.conn[s1.writer] = "closed",
                            !.writer = 0, !.reader = 0]
            ELSE s1
      s3 == [s2 EXCEPT !.fut = FailAll(@, Owners(s2.pend), "ConnectionError"),
                       !.pend = EmptyDict]
  IN [s3 EXCEPT !.ctask = Append(@, NewReconnectTask),
                !.reconnect_task = Len(s3.ctask) + 1]

\* _handle_disconnect that forgets the cached values with the connection
HandleDisconnectDropsCache(s) ==
  LET s1 == [s EXCEPT !.connected = FALSE, !.vars = EmptyDict]
      s2 == IF s1.writer # 0
            THEN [s1 EXCEPT !.conn[s1.writer] = "closed",
                            !.writer = 0, !.reader = 0]
            ELSE s1
      s3 == [s2 EXCEPT !.fut = FailAll(@, Owners(s2.pend), "ConnectionError"),
                       !.pend = EmptyDict]
  IN IF s3.reconnect_enabled
     THEN [s3 EXCEPT !.ctask = Append(@, NewReconnectTask),
                     !.reconnect_task = Len(s3.ctask) + 1]
     ELSE s3

\* PlcComSClient._handle_disconnect
_handle_disconnect(s) ==
  LET s1 == [s EXCEPT !.connected = FALSE]
      s2 == IF s1.writer # 0
            THEN [s1 EXCEPT !.conn[s1.writer] = "closed",
                            !.writer = 0, !.reader = 0]
            ELSE s1
      s3 == [s2 EXCEPT !.fut = FailAll(@, Owners(s2.pend), "ConnectionError"),
                       !.pend = EmptyDict]
  IN IF s3.reconnect_enabled
     THEN [s3 EXCEPT !.ctask = Append(@, NewReconnectTask),
                     !.reconnect_task = Len(s3.ctask) + 1]
     ELSE s3

\* a connect that stores the stream and sets the flag but starts no
\* receive loop
ConnectOpenedNoLoop(s) ==
  LET k == Len(s.conn) + 1
  IN [s EXCEPT !.conn = Append(@, "open"),
               !.reader = k, !.writer = k,
               !.connected = TRUE,
               !.buffer = <<>>]

\* a connect that leaves the read buffer as the last connection left it
ConnectOpenedKeepsBuffer(s) ==
  LET k == Len(s.conn) + 1
  IN [s EXCEPT !.conn = Append(@, "open"),
               !.reader = k, !.writer = k,
               !.connected = TRUE,
               !.rtask = Append(@, NewReadTask),
               !.read_task = Len(s.rtask) + 1]

\* PlcComSClient.connect, after open_connection returned a new stream:
\* lines 103-108
connect_opened(s) ==
  LET k == Len(s.conn) + 1
  IN [s EXCEPT !.conn = Append(@, "open"),
               !.reader = k, !.writer = k,
               !.connected = TRUE,
               !.buffer = <<>>,
               !.rtask = Append(@, NewReadTask),
               !.read_task = Len(s.rtask) + 1]

\* characters cp1250 has no byte for: the strict encoder of line 380 raises
\* on them, every other character is encoded to its own byte
Unencodable == {"U+FFFD"}

\* _send_command writing the command text and leaving the terminator to a
\* later write
SendCommandSplitsLine(s, command) ==
  IF ~s.connected \/ s.writer = 0
  THEN [s EXCEPT !.exc = "ConnectionError"]
  ELSE [s EXCEPT !.wire = Append(@, command)]

\* PlcComSClient._send_command up to "await self._writer.drain()":
\* the check of line 376, the encoding of lines 380-381 (an encoding error
\* is wrapped by lines 385-386) and the single write of line 382, which
\* hands the whole line to the transport in one call
_send_command(s, command) ==
  LET text == command \o LINE_TERMINATOR
  IN IF ~s.connected \/ s.writer = 0
     THEN [s EXCEPT !.exc = "ConnectionError"]
     ELSE IF \E i \in 1..Len(text) : text[i] \in Unencodable
     THEN [s EXCEPT !.exc = "ConnectionError"]
     ELSE [s EXCEPT !.wire = Append(@, text)]

\* How "await self._writer.drain()" can go on connection k: it returns at
\* once, it suspends (write buffer above the high-water mark), or it raises
\* because the connection was reset.
DrainOutcomes(s, k) ==
  IF s.conn[k] = "err" THEN {"raise"} ELSE {"ok", "suspend"}
\* a suspended drain is resumed: it raises when the connection was reset
DrainResumeRaises(k) == conn[k] = "err"

(***************************************************************************)
(* The receive loop: PlcComSClient._read_loop, one task per connect().     *)
(***************************************************************************)
\* bytes that cp1250 leaves undefined; decoding with "replace" maps them to
\* U+FFFD, every other byte to its own character
UndefinedBytes == {"0x81", "0x83", "0x88", "0x90", "0x98"}
Decode(data) ==
  [i \in 1..Len(data) |->
     IF data[i] \in UndefinedBytes THEN "U+FFFD" ELSE data[i]]

\* a loop body that takes only the first complete line of the buffer
ProcessFirstLine(s) ==
  IF s.exc # "" \/ ~Contains(s.buffer, LINE_TERMINATOR) THEN s
  ELSE LET p  == SplitOnce(s.buffer, LINE_TERMINATOR)
           s1 == [s EXCEPT !.buffer = p[2]]
       IN IF p[1] # <<>> THEN _process_response(s1, p[1]) ELSE s1

\* lines 174-177: process every complete line of the buffer
RECURSIVE ProcessLines(_)
ProcessLines(s) ==
  IF s.exc # "" \/ ~Contains(s.buffer, LINE_TERMINATOR) THEN s
  ELSE LET p  == SplitOnce(s.buffer, LINE_TERMINATOR)
           s1 == [s EXCEPT !.buffer = p[2]]
       IN ProcessLines(IF p[1] # <<>> THEN _process_response(s1, p[1])
                       ELSE s1)

\* lines 161-163: the loop condition and the call of read(); a second task
\* that calls read() on a StreamReader another task is waiting on gets a
\* RuntimeError, which line 181 handles like a read error
ReadLoopTop(s, t) ==
  IF s.connected /\ s.reader # 0
  THEN IF \E u \in 1..Len(s.rtask) :
            u # t /\ s.rtask[u].st = "read" /\ s.rtask[u].conn = s.reader
       THEN [_handle_disconnect(s) EXCEPT !.rtask[t].st = "done"]
       ELSE [s EXCEPT !.rtask[t].st = "read", !.rtask[t].conn = s.reader]
  ELSE [s EXCEPT !.rtask[t].st = "done"]

\* the task runs for the first time
read_loop_start(t) ==
  /\ t \in 1..Len(rtask)
  /\ rtask[t].st = "start" /\ ~rtask[t].cancel
  /\ Commit(ReadLoopTop(Cur, t))
  /\ UNCHANGED <<_callbacks, _global_callbacks, pc, arg, ops, rx>>
  /\ ret' = NoRets

\* read() returns data: lines 169-177, then the loop condition again
read_loop_data(t, data) ==
  /\ t \in 1..Len(rtask)
  /\ rtask[t].st = "read" /\ ~rtask[t].cancel
  /\ conn[rtask[t].conn] = "open"
  /\ rx > 0
  /\ rx' = rx - 1
  /\ LET s1 == ProcessLines([Cur EXCEPT !.buffer = @ \o Decode(data),
                                        !.recv = data])
     IN IF s1.exc # ""
        THEN Commit([_handle_disconnect([s1 EXCEPT !.exc = ""])
                       EXCEPT !.rtask[t].st = "done"])
        ELSE Commit(ReadLoopTop(s1, t))
  /\ UNCHANGED <<_callbacks, _global_callbacks, pc, arg, ops>>
  /\ ret' = NoRets

\* read() returns b"": lines 164-167
read_loop_eof(t) ==
  /\ t \in 1..Len(rtask)
  /\ rtask[t].st = "read" /\ ~rtask[t].cancel
  /\ conn[rtask[t].conn] \in {"eof", "closed"}
  /\ Commit([_handle_disconnect(Cur) EXCEPT !.rtask[t].st = "done"])
  /\ UNCHANGED <<_callbacks, _global_callbacks, pc, arg, ops, rx>>
  /\ ret' = NoRets

\* read() raises: lines 181-184
read_loop_error(t) ==
  /\ t \in 1..Len(rtask)
  /\ rtask[t].st = "read" /\ ~rtask[t].cancel
  /\ conn[rtask[t].conn] = "err"
  /\ Commit([_handle_disconnect(Cur) EXCEPT !.rtask[t].st = "done"])
  /\ UNCHANGED <<_callbacks, _global_callbacks, pc, arg, ops, rx>>
  /\ ret' = NoRets

\* the task was cancelled: lines 179-180 (or it never ran)
read_loop_cancelled(t) ==
  /\ t \in 1..Len(rtask)
  /\ rtask[t].st \in {"start", "read"} /\ rtask[t].cancel
  /\ rtask' = [rtask EXCEPT ![t].st = "done"]
  /\ UNCHANGED <<_connected, _reconnect_enabled, _reader, _writer,
                 _read_task, _reconnect_task, _buffer, _variables,
                 _pending_responses, _callbacks, _global_callbacks, fut,
                 ctask, pc, arg, conn, ops, rx>>
  /\ ret' = NoRets
  /\ calls' = <<>>
  /\ wire' = <<>>
  /\ recv' = <<>>

\* the PLC closes the connection / the connection is reset
peer_close(k) ==
  /\ k \in 1..Len(conn)
  /\ conn[k] = "open"
  /\ conn' = [conn EXCEPT ![k] = "eof"]
  /\ UNCHANGED <<_connected, _reconnect_enabled, _reader, _writer,
                 _read_task, _reconnect_task, _buffer, _variables,
                 _pending_responses, _callbacks, _global_callbacks, fut,
                 rtask, ctask, pc, arg, ops, rx>>
  /\ ret' = NoRets
  /\ calls' = <<>>
  /\ wire' = <<>>
  /\ recv' = <<>>
peer_reset(k) ==
  /\ k \in 1..Len(conn)
  /\ conn[k] = "open"
  /\ conn' = [conn EXCEPT ![k] = "err"]
  /\ UNCHANGED <<_connected, _reconnect_enabled, _reader, _writer,
                 _read_task, _reconnect_task, _buffer, _variables,
                 _pending_responses, _callbacks, _global_callbacks, fut,
                 rtask, ctask, pc, arg, ops, rx>>
  /\ ret' = NoRets
  /\ calls' = <<>>
  /\ wire' = <<>>
  /\ recv' = <<>>

(***************************************************************************)
(* The reconnection supervisor: PlcComSClient._reconnect_loop, one task    *)
(* per _handle_disconnect with reconnection enabled.                       *)
(***************************************************************************)
\* the subscription command with a space for the colon
CmdENSpace(name) == <<"E","N"," ">> \o name
CmdEN(name) == <<"E","N",":">> \o name

\* line 206: the loop condition, then the sleep of line 209
ReconnectTop(s, t) ==
  IF s.reconnect_enabled /\ ~s.connected
  THEN [s EXCEPT !.ctask[t].st = "sleep"]
  ELSE [s EXCEPT !.ctask[t].st = "done"]

\* a loop that gives up at the first failed attempt
ConnectFailedEndsLoop(s, t) ==
  [s EXCEPT !.ctask[t].st = "done", !.ctask[t].failed = TRUE]

\* lines 214-215: the PlcComSConnectionError of connect() is caught and
\* logged, and the loop goes on; failed marks the task until its next
\* attempt
ConnectFailed(s, t) ==
  ReconnectTop([s EXCEPT !.ctask[t].failed = TRUE], t)

\* lines 212-213 from the i-th key on: the dict iterator raises RuntimeError
\* when the dict changed size; a PlcComSConnectionError of _send_command is
\* caught at line 214; the drain of the stopAt-th command suspends
RECURSIVE Resubscribe(_, _, _, _, _)
Resubscribe(s, t, i, size, stopAt) ==
  IF Len(_callbacks) # size
  THEN [s EXCEPT !.ctask[t].st = "done", !.ctask[t].exc = "RuntimeError"]
  ELSE IF i > size THEN ReconnectTop(s, t)
  ELSE LET s1 == _send_command(s, CmdEN(_callbacks[i].k))
       IN IF s1.exc # "" THEN ReconnectTop([s1 EXCEPT !.exc = ""], t)
          ELSE IF "raise" \in DrainOutcomes(s1, s1.writer)
            THEN ReconnectTop(s1, t)
          ELSE IF i = stopAt
            THEN [s1 EXCEPT !.ctask[t].st = "en_drain", !.ctask[t].it = i,
                            !.ctask[t].size = size,
                            !.ctask[t].conn = s1.writer]
          ELSE Resubscribe(s1, t, i + 1, size, stopAt)

\* the task runs for the first time
reconnect_start(t) ==
  /\ t \in 1..Len(ctask)
  /\ ctask[t].st = "start" /\ ~ctask[t].cancel
  /\ Commit(ReconnectTop(Cur, t))
  /\ UNCHANGED <<_callbacks, _global_callbacks, pc, arg, ops, rx>>
  /\ ret' = NoRets

\* the sleep is over and connect() is called: it returns at once when the
\* client is connected (line 94), else it waits for open_connection
reconnect_wake(t, stopAt) ==
  /\ t \in 1..Len(ctask)
  /\ ctask[t].st = "sleep" /\ ~ctask[t].cancel
  /\ LET s == [Cur EXCEPT !.ctask[t].failed = FALSE]
     IN IF _connected
        THEN Commit(Resubscribe(s, t, 1, Len(_callbacks), stopAt))
        ELSE stopAt = 0 /\ Commit([s EXCEPT !.ctask[t].st = "connecting"])
  /\ UNCHANGED <<_callbacks, _global_callbacks, pc, arg, ops, rx>>
  /\ ret' = NoRets

\* open_connection succeeded: lines 103-108, then lines 212-213
reconnect_connected(t, stopAt) ==
  /\ t \in 1..Len(ctask)
  /\ ctask[t].st = "connecting" /\ ~ctask[t].cancel
  /\ Len(conn) < MaxConn
  /\ Commit(Resubscribe(connect_opened(Cur), t, 1, Len(_callbacks), stopAt))
  /\ UNCHANGED <<_callbacks, _global_callbacks, pc, arg, ops, rx>>
  /\ ret' = NoRets

\* open_connection failed: lines 110-117, caught at line 214
reconnect_failed(t) ==
  /\ t \in 1..Len(ctask)
  /\ ctask[t].st = "connecting" /\ ~ctask[t].cancel
  /\ Commit(ConnectFailed(Cur, t))
  /\ UNCHANGED <<_callbacks, _global_callbacks, pc, arg, ops, rx>>
  /\ ret' = NoRets

\* the suspended drain of an EN command is over
reconnect_drained(t, stopAt) ==
  /\ t \in 1..Len(ctask)
  /\ ctask[t].st = "en_drain" /\ ~ctask[t].cancel
  /\ IF DrainResumeRaises(ctask[t].conn)
     THEN stopAt = 0 /\ Commit(ReconnectTop(Cur, t))
     ELSE Commit(Resubscribe(Cur, t, ctask[t].it + 1, ctask[t].size,
                             stopAt))
  /\ UNCHANGED <<_callbacks, _global_callbacks, pc, arg, ops, rx>>
  /\ ret' = NoRets

\* the task was cancelled: lines 216-217 (or it never ran)
reconnect_cancelled(t) ==
  /\ t \in 1..Len(ctask)
  /\ ctask[t].st \in {"start", "sleep", "connecting", "en_drain"}
  /\ ctask[t].cancel
  /\ ctask' = [ctask EXCEPT ![t].st = "done"]
  /\ UNCHANGED <<_connected, _reconnect_enabled, _reader, _writer,
                 _read_task, _reconnect_task, _buffer, _variables,
                 _pending_responses, _callbacks, _global_callbacks, fut,
                 rtask, pc, arg, conn, ops, rx>>
  /\ ret' = NoRets
  /\ calls' = <<>>
  /\ wire' = <<>>
  /\ recv' = <<>>

(***************************************************************************)
(* Caller tasks: the public operations.  pc[c] is "idle" or the await the  *)
(* caller is suspended in; ret[c] is how its last operation ended.         *)
(***************************************************************************)

CmdGET(name)      == <<"G","E","T",":">> \o name
CmdGETINFO(param) == <<"G","E","T","I","N","F","O",":">> \o param
CmdLIST           == <<"L","I","S","T",":">>
\* a set_variable that separates name and value with a blank, as EN does
CmdSETBlank(name, txt) == <<"S","E","T",":">> \o name \o <<" ">> \o txt
CmdSET(name, txt) == <<"S","E","T",":">> \o name \o <<",">> \o txt

\* the caller starts an operation
\* (callers are interchangeable: the first idle one takes the operation)
Begin(c) ==
  /\ pc[c] = "idle"
  /\ \A x \in Callers : pc[x] = "idle" => ~CallerBefore(x, c)
  /\ ops > 0
  /\ ops' = ops - 1
  /\ rx' = rx

\* the operation of caller c ends with r
ReturnNamed(c, r, name) ==
  /\ pc' = [pc EXCEPT ![c] = "idle"]
  /\ arg' = [arg EXCEPT ![c] = NoArg]
  /\ ret' = [NoRets EXCEPT ![c] = [r EXCEPT !.name = name]]
Return(c, r) == ReturnNamed(c, r, arg[c].name)

\* the caller suspends at label l
Suspend(c, l, a) ==
  /\ pc' = [pc EXCEPT ![c] = l]
  /\ arg' = [arg EXCEPT ![c] = a]
  /\ ret' = NoRets

\* a get_variable without the pops of lines 433 and 437: the entry stays
CleanupNoPop(s, c, key) ==
  [s EXCEPT !.fut[c] = NoFuture, !.exc = ""]

\* "finally: self._pending_responses.pop(key, None)"; the future of the
\* call is dropped with the call
Cleanup(s, c, key) ==
  [s EXCEPT !.pend = IF key \in DOMAIN @ THEN Del(@, key) ELSE @,
            !.fut[c] = NoFuture, !.exc = ""]

\* what "await asyncio.wait_for(future, timeout)" gives for a done future
Outcome(op, f) ==
  IF f.st = "result" THEN [Ret(op, "value") EXCEPT !.v = f.v]
  ELSE IF f.st = "exception" THEN Ret(op, f.exc)
  ELSE Ret(op, "CancelledError")

\* get_variable / get_info up to the first suspension: the future is
\* created and registered, the command is sent and drained
RequestCall(c, op, key, command, name, d) ==
  LET s0 == [Cur EXCEPT !.fut[c] = NewFuture, !.pend = Put(@, key, c)]
      s1 == _send_command(s0, command)
  IN IF s1.exc # ""
     THEN /\ d = "raise"
          /\ Commit(Cleanup(s1, c, key))
          /\ ReturnNamed(c, Ret(op, "ConnectionError"), name)
     ELSE /\ d \in DrainOutcomes(s1, s1.writer)
          /\ IF d = "raise"
             THEN Commit(Cleanup(s1, c, key))
                  /\ ReturnNamed(c, Ret(op, "ConnectionError"), name)
             ELSE IF d = "suspend"
             THEN Commit(s1)
                  /\ Suspend(c, op \o "_drain",
                             [name |-> name, conn |-> s1.writer])
             ELSE Commit(s1)
                  /\ Suspend(c, op \o "_wait", [name |-> name, conn |-> 0])

\* the suspended drain is over; wait_for returns at once on a done future
RequestDrained(c, op, key) ==
  /\ pc[c] = op \o "_drain"
  /\ IF DrainResumeRaises(arg[c].conn)
     THEN Commit(Cleanup(Cur, c, key))
          /\ Return(c, Ret(op, "ConnectionError"))
     ELSE IF FutDone(fut[c])
     THEN Commit(Cleanup(Cur, c, key)) /\ Return(c, Outcome(op, fut[c]))
     ELSE Commit(Cur)
          /\ Suspend(c, op \o "_wait", [arg[c] EXCEPT !.conn = 0])
  /\ UNCHANGED <<_callbacks, _global_callbacks, ops, rx>>

\* the future is done and the caller resumes
RequestResume(c, op, key) ==
  /\ pc[c] = op \o "_wait"
  /\ FutDone(fut[c])
  /\ Commit(Cleanup(Cur, c, key))
  /\ Return(c, Outcome(op, fut[c]))
  /\ UNCHANGED <<_callbacks, _global_callbacks, ops, rx>>

\* the timeout of wait_for elapses first: the future is cancelled and
\* TimeoutError raised (lines 431-437)
RequestTimeout(c, op, key) ==
  /\ pc[c] = op \o "_wait"
  /\ ~FutDone(fut[c])
  /\ Commit(Cleanup(Cur, c, key))
  /\ Return(c, Ret(op, "TimeoutError"))
  /\ UNCHANGED <<_callbacks, _global_callbacks, ops, rx>>

\* PlcComSClient.get_variable
get_variable(c, name, d) ==
  /\ Begin(c)
  /\ RequestCall(c, "get", KeyGET(name), CmdGET(name), name, d)
  /\ UNCHANGED <<_callbacks, _global_callbacks>>
get_variable_drained(c) == RequestDrained(c, "get", KeyGET(arg[c].name))
get_variable_resume(c)  == RequestResume(c, "get", KeyGET(arg[c].name))
get_variable_timeout(c) == RequestTimeout(c, "get", KeyGET(arg[c].name))

\* PlcComSClient.get_info
get_info(c, param, d) ==
  /\ Begin(c)
  /\ RequestCall(c, "info", KeyGETINFO, CmdGETINFO(param), param, d)
  /\ UNCHANGED <<_callbacks, _global_callbacks>>
get_info_drained(c) == RequestDrained(c, "info", KeyGETINFO)
get_info_resume(c)  == RequestResume(c, "info", KeyGETINFO)
get_info_timeout(c) == RequestTimeout(c, "info", KeyGETINFO)

\* PlcComSClient.list_variables: the future only carries _var_list; the
\* call sleeps for the timeout and returns the list, whatever happened
list_variables(c, d) ==
  /\ Begin(c)
  /\ LET s0 == [Cur EXCEPT !.fut[c] = NewFuture,
                           !.pend = Put(@, KeyLIST, c)]
         s1 == _send_command(s0, CmdLIST)
     IN IF s1.exc # ""
        THEN /\ d = "raise"
             /\ Commit(Cleanup(s1, c, KeyLIST))
             /\ Return(c, Ret("list", "ConnectionError"))
        ELSE /\ d \in DrainOutcomes(s1, s1.writer)
             /\ IF d = "raise"
                THEN Commit(Cleanup(s1, c, KeyLIST))
                     /\ Return(c, Ret("list", "ConnectionError"))
                ELSE IF d = "suspend"
                THEN Commit(s1)
                     /\ Suspend(c, "list_drain",
                                [name |-> <<>>, conn |-> s1.writer])
                ELSE Commit(s1) /\ Suspend(c, "list_sleep", NoArg)
  /\ UNCHANGED <<_callbacks, _global_callbacks>>

list_variables_drained(c) ==
  /\ pc[c] = "list_drain"
  /\ IF DrainResumeRaises(arg[c].conn)
     THEN Commit(Cleanup(Cur, c, KeyLIST))
          /\ Return(c, Ret("list", "ConnectionError"))
     ELSE Commit(Cur) /\ Suspend(c, "list_sleep", NoArg)
  /\ UNCHANGED <<_callbacks, _global_callbacks, ops, rx>>

\* "await asyncio.sleep(timeout)" is over: lines 475-478
list_variables_done(c) ==
  /\ pc[c] = "list_sleep"
  /\ Commit(Cleanup(Cur, c, KeyLIST))
  /\ Return(c, [Ret("list", "value") EXCEPT !.list = fut[c].var_list])
  /\ UNCHANGED <<_callbacks, _global_callbacks, ops, rx>>

\* an operation that only sends one command (set_variable,
\* enable_monitoring, disable_monitoring), from the state s
SendCall(c, op, s, command, d) ==
  LET s1 == _send_command(s, command)
  IN IF s1.exc # ""
     THEN /\ d = "raise"
          /\ Commit([s1 EXCEPT !.exc = ""])
          /\ Return(c, Ret(op, "ConnectionError"))
     ELSE /\ d \in DrainOutcomes(s1, s1.writer)
          /\ Commit(s1)
          /\ IF d = "raise" THEN Return(c, Ret(op, "ConnectionError"))
             ELSE IF d = "suspend"
             THEN Suspend(c, op \o "_drain", [name |-> <<>>,
                                              conn |-> s1.writer])
             ELSE Return(c, Ret(op, "ok"))

SendDrained(c, op) ==
  /\ pc[c] = op \o "_drain"
  /\ Return(c, Ret(op, IF DrainResumeRaises(arg[c].conn)
                       THEN "ConnectionError" ELSE "ok"))
  /\ UNCHANGED <<_connected, _reconnect_enabled, _reader, _writer,
                 _read_task, _reconnect_task, _buffer, _variables,
                 _pending_responses, _callbacks, _global_callbacks, fut,
                 rtask, ctask, conn, ops, rx>>
  /\ calls' = <<>>
  /\ wire' = <<>>
  /\ recv' = <<>>

\* PlcComSClient.set_variable
set_variable(c, name, value, d) ==
  /\ Begin(c)
  /\ SendCall(c, "set", Cur, CmdSET(name, _format_value(value)), d)
  /\ UNCHANGED <<_callbacks, _global_callbacks>>
set_variable_drained(c) == SendDrained(c, "set")

\* PlcComSClient.enable_monitoring; callback "" stands for None, delta is
\* an int or float value
enable_monitoring(c, name, delta, callback, d) ==
  /\ Begin(c)
  /\ _callbacks' = IF callback # "" THEN AppendTo(_callbacks, name, callback)
                   ELSE _callbacks
  /\ SendCall(c, "en", Cur,
              IF delta.i > 0
              THEN CmdEN(name) \o <<" ">> \o _format_value(delta)
              ELSE CmdEN(name), d)
  /\ UNCHANGED _global_callbacks
enable_monitoring_drained(c) == SendDrained(c, "en")

\* PlcComSClient.disable_monitoring
disable_monitoring(c, name, d) ==
  /\ Begin(c)
  /\ _callbacks' = PopKey(_callbacks, name)
  /\ SendCall(c, "di", Cur, <<"D","I",":">> \o name, d)
  /\ UNCHANGED _global_callbacks
disable_monitoring_drained(c) == SendDrained(c, "di")

\* PlcComSClient.register_callback; var_name <<>> stands for None
register_callback(c, callback, var_name) ==
  /\ Begin(c)
  /\ IF var_name # <<>>
     THEN /\ _callbacks' = AppendTo(_callbacks, var_name, callback)
          /\ UNCHANGED _global_callbacks
     ELSE /\ _global_callbacks' = Append(_global_callbacks, callback)
          /\ UNCHANGED _callbacks
  /\ Return(c, Ret("register", "ok"))
  /\ UNCHANGED <<_connected, _reconnect_enabled, _reader, _writer,
                 _read_task, _reconnect_task, _buffer, _variables,
                 _pending_responses, fut, rtask, ctask, conn>>
  /\ calls' = <<>>
  /\ wire' = <<>>
  /\ recv' = <<>>

\* PlcComSClient.unregister_callback
unregister_callback(c, callback, var_name) ==
  /\ Begin(c)
  /\ IF var_name # <<>>
     THEN /\ _callbacks' =
               IF HasKey(_callbacks, var_name)
               THEN [i \in 1..Len(_callbacks) |->
                       IF _callbacks[i].k = var_name
                       THEN [k |-> var_name,
                             v |-> RemoveFirst(_callbacks[i].v, callback)]
                       ELSE _callbacks[i]]
               ELSE _callbacks
          /\ UNCHANGED _global_callbacks
     ELSE /\ _global_callbacks' = RemoveFirst(_global_callbacks, callback)
          /\ UNCHANGED _callbacks
  /\ Return(c, Ret("unregister", "ok"))
  /\ UNCHANGED <<_connected, _reconnect_enabled, _reader, _writer,
                 _read_task, _reconnect_task, _buffer, _variables,
                 _pending_responses, fut, rtask, ctask, conn>>
  /\ calls' = <<>>
  /\ wire' = <<>>
  /\ recv' = <<>>

\* PlcComSClient.connect called by a caller: line 94, then open_connection
connect(c) ==
  /\ Begin(c)
  /\ IF _connected
     THEN Return(c, Ret("connect", "ok"))
     ELSE Suspend(c, "connecting", NoArg)
  /\ UNCHANGED <<_connected, _reconnect_enabled, _reader, _writer,
                 _read_task, _reconnect_task, _buffer, _variables,
                 _pending_responses, _callbacks, _global_callbacks, fut,
                 rtask, ctask, conn>>
  /\ calls' = <<>>
  /\ wire' = <<>>
  /\ recv' = <<>>

\* open_connection succeeded: lines 103-108
connect_done(c) ==
  /\ pc[c] = "connecting"
  /\ Len(conn) < MaxConn
  /\ Commit(connect_opened(Cur))
  /\ Return(c, Ret("connect", "ok"))
  /\ UNCHANGED <<_callbacks, _global_callbacks, ops, rx>>

\* open_connection timed out or failed: lines 110-117
connect_failed(c) ==
  /\ pc[c] = "connecting"
  /\ Return(c, Ret("connect", "ConnectionError"))
  /\ UNCHANGED <<_connected, _reconnect_enabled, _reader, _writer,
                 _read_task, _reconnect_task, _buffer, _variables,
                 _pending_responses, _callbacks, _global_callbacks, fut,
                 rtask, ctask, conn, ops, rx>>
  /\ calls' = <<>>
  /\ wire' = <<>>
  /\ recv' = <<>>

(***************************************************************************)
(* PlcComSClient.disconnect.  It suspends while awaiting the cancelled     *)
(* receive task, the cancelled reconnection task and wait_closed(); each   *)
(* part below runs up to the next suspension and yields [s, at, obj, exc]: *)
(* the new state, the await reached ("" at the end), the awaited task and  *)
(* the exception that ends disconnect().                                   *)
(***************************************************************************)
CancelAll(f, owners) ==
  [c \in DOMAIN f |-> IF c \in owners /\ ~FutDone(f[c]) THEN cancel(f[c])
                      ELSE f[c]]

DiscAt(s, at, obj) == [s |-> s, at |-> at, obj |-> obj, exc |-> ""]

\* lines 149-153
DisconnectPending(s) ==
  DiscAt([s EXCEPT !.fut = CancelAll(@, Owners(s.pend)),
                   !.pend = EmptyDict], "", 0)

\* lines 146-153, after wait_closed()
DisconnectClosed(s) ==
  DisconnectPending([s EXCEPT !.writer = 0, !.reader = 0])

\* a teardown without the "if self._writer" guard: with no socket the
\* close() call raises AttributeError
DisconnectWriterUnguarded(s) ==
  IF s.writer # 0
  THEN DiscAt([s EXCEPT !.conn[s.writer] = "closed"], "disc_close", 0)
  ELSE [DiscAt(s, "", 0) EXCEPT !.exc = "AttributeError"]

\* lines 140-143
DisconnectWriter(s) ==
  IF s.writer # 0
  THEN DiscAt([s EXCEPT !.conn[s.writer] = "closed"], "disc_close", 0)
  ELSE DisconnectPending(s)

\* lines 132-138; awaiting a finished task returns at once, and raises the
\* exception the task ended with
DisconnectReconnectAwaited(s, t) ==
  IF s.ctask[t].exc # ""
  THEN [DiscAt(s, "", 0) EXCEPT !.exc = s.ctask[t].exc]
  ELSE DisconnectWriter([s EXCEPT !.reconnect_task = 0])
DisconnectReconnect(s) ==
  IF s.reconnect_task # 0
  THEN LET t == s.reconnect_task
       IN IF s.ctask[t].st = "done"
          THEN DisconnectReconnectAwaited(s, t)
          ELSE DiscAt([s EXCEPT !.ctask[t].cancel = TRUE],
                      "disc_reconnect", t)
  ELSE DisconnectWriter(s)

\* lines 121-130
DisconnectReadAwaited(s) ==
  DisconnectReconnect([s EXCEPT !.read_task = 0])
DisconnectBegin(s0) ==
  LET s == [s0 EXCEPT !.connected = FALSE, !.reconnect_enabled = FALSE]
  IN IF s.read_task # 0
     THEN LET t == s.read_task
          IN IF s.rtask[t].st = "done"
             THEN DisconnectReadAwaited(s)
             ELSE DiscAt([s EXCEPT !.rtask[t].cancel = TRUE],
                         "disc_read", t)
     ELSE DisconnectReconnect(s)

\* commit a part of disconnect() and suspend or return
DisconnectStep(c, r) ==
  /\ Commit(r.s)
  /\ IF r.exc # "" THEN Return(c, Ret("disconnect", r.exc))
     ELSE IF r.at = "" THEN Return(c, Ret("disconnect", "ok"))
     ELSE Suspend(c, r.at, [name |-> <<>>, conn |-> r.obj])
  /\ UNCHANGED <<_callbacks, _global_callbacks>>

disconnect(c) ==
  /\ Begin(c)
  /\ DisconnectStep(c, DisconnectBegin(Cur))

\* the awaited receive task has ended
disconnect_read_awaited(c) ==
  /\ pc[c] = "disc_read"
  /\ rtask[arg[c].conn].st = "done"
  /\ DisconnectStep(c, DisconnectReadAwaited(Cur))
  /\ UNCHANGED <<ops, rx>>

\* the awaited reconnection task has ended
disconnect_reconnect_awaited(c) ==
  /\ pc[c] = "disc_reconnect"
  /\ ctask[arg[c].conn].st = "done"
  /\ DisconnectStep(c, DisconnectReconnectAwaited(Cur, arg[c].conn))
  /\ UNCHANGED <<ops, rx>>

\* wait_closed() has returned
disconnect_closed(c) ==
  /\ pc[c] = "disc_close"
  /\ DisconnectStep(c, DisconnectClosed(Cur))
  /\ UNCHANGED <<ops, rx>>

(***************************************************************************)
(* Specifications.                                                         *)
(***************************************************************************)
NameA == <<"A">>
NameB == <<"B">>
CRLF(line) == line \o LINE_TERMINATOR

\* the state after PlcComSClient.__init__(host, port, reconnect), with a
\* budget of n caller operations
InitClient(reconnect, n, m) ==
  /\ _connected = FALSE
  /\ _reconnect_enabled = reconnect
  /\ _reader = 0
  /\ _writer = 0
  /\ _read_task = 0
  /\ _reconnect_task = 0
  /\ _buffer = <<>>
  /\ _variables = EmptyDict
  /\ _pending_responses = EmptyDict
  /\ _callbacks = <<>>
  /\ _global_callbacks = <<>>
  /\ fut = [c \in Callers |-> NoFuture]
  /\ rtask = <<>>
  /\ ctask = <<>>
  /\ pc = [c \in Callers |-> "idle"]
  /\ arg = [c \in Callers |-> NoArg]
  /\ ret = [c \in Callers |-> NoRet]
  /\ conn = <<>>
  /\ wire = <<>>
  /\ calls = <<>>
  /\ recv = <<>>
  /\ ops = n
  /\ rx = m

\* the tasks of the client and the PLC side of the connections; a
\* resubscription may suspend in the drain of any of its commands
TaskIds == 1..MaxConn
StopAts == 0..2
Tasks ==
  \/ \E t \in TaskIds : read_loop_start(t)
  \/ \E t \in TaskIds : read_loop_eof(t)
  \/ \E t \in TaskIds : read_loop_error(t)
  \/ \E t \in TaskIds : reconnect_start(t)
  \/ \E t \in TaskIds : \E stopAt \in StopAts : reconnect_wake(t, stopAt)
  \/ \E t \in TaskIds : \E stopAt \in StopAts :
       reconnect_connected(t, stopAt)
  \/ \E t \in TaskIds : reconnect_failed(t)
  \/ \E k \in TaskIds : peer_close(k)
  \/ \E k \in TaskIds : peer_reset(k)

\* the tasks that disconnect() cancelled end
Cancelled ==
  \/ \E t \in TaskIds : read_loop_cancelled(t)
  \/ \E t \in TaskIds : reconnect_cancelled(t)

Drains == {"ok", "suspend", "raise"}

\* Spec: request/response correlation.  Callers connect, disconnect and
\* issue get_variable("A"), get_info("v") and list_variables(); the PLC
\* answers, pushes a DIFF, closes or resets the connection.
ChunksReq ==
  { CRLF(<<"G","E","T",":","A",",","1">>),
    CRLF(<<"D","I","F","F",":","A",",","2">>),
    CRLF(<<"G","E","T","I","N","F","O",":","v","7">>),
    CRLF(<<"L","I","S","T",":","A",",","I","N","T","*">>) }

Init == InitClient(TRUE, MaxOps, MaxRecv)

Next ==
  \/ Tasks
  \/ Cancelled
  \/ \E t \in TaskIds : \E data \in ChunksReq : read_loop_data(t, data)
  \/ \E c \in Callers :
       \/ connect(c) \/ connect_done(c) \/ connect_failed(c)
       \/ \E d \in Drains : get_variable(c, NameA, d)
       \/ get_variable_drained(c)
       \/ get_variable_resume(c)
       \/ get_variable_timeout(c)
       \/ \E d \in Drains : get_info(c, <<"v">>, d)
       \/ get_info_drained(c)
       \/ get_info_resume(c)
       \/ get_info_timeout(c)
       \/ \E d \in Drains : list_variables(c, d)
       \/ list_variables_drained(c)
       \/ list_variables_done(c)
       \/ disconnect(c)
       \/ disconnect_read_awaited(c)
       \/ disconnect_reconnect_awaited(c)
       \/ disconnect_closed(c)

Spec == Init /\ [][Next]_vars

(***************************************************************************)
(* Claims.                                                                 *)
(***************************************************************************)
\* the key a caller suspended in a request registered its future under
KeyOf(c) ==
  IF pc[c] \in {"get_drain", "get_wait"} THEN KeyGET(arg[c].name)
  ELSE IF pc[c] \in {"info_drain", "info_wait"} THEN KeyGETINFO
  ELSE KeyLIST
\* the caller is inside get_variable, get_info or list_variables: it has
\* registered its future and has not returned
InRequest(c) ==
  pc[c] \in {"get_drain", "get_wait", "info_drain", "info_wait",
             "list_drain", "list_sleep"}
\* the request of the caller is unresolved
InFlight(c) == InRequest(c) /\ ~FutDone(fut[c])
\* the future of the caller is the one in the pending table
Registered(c) ==
  /\ KeyOf(c) \in DOMAIN _pending_responses
  /\ _pending_responses[KeyOf(c)] = c

\* C1: the result slot registered for an unresolved call stays registered
\* under its key until the call is resolved or returns; no other call with
\* the same key replaces it.
C1_SlotNeverReplaced ==
  [][\A c \in Callers :
       (InFlight(c) /\ Registered(c) /\ pc'[c] # "idle"
        /\ ~FutDone(fut'[c]))
       => /\ KeyOf(c) \in DOMAIN _pending_responses'
          /\ _pending_responses'[KeyOf(c)] = c]_vars

\* the lines GET:<name>,<raw> and DIFF:<name>,<raw>
LineGET(name, raw) == <<"G","E","T",":">> \o name \o <<",">> \o raw
LineDIFF(name, raw) == <<"D","I","F","F",":">> \o name \o <<",">> \o raw
Names == {NameA, NameB}
Raws == {<<"1">>, <<"2">>, <<"t","r","u","e">>, <<"2",".","5">>}

\* C2: when the receive loop processes GET:<name>,<raw> while
\* get_variable(name) waits for its response, the call's future holds the
\* parsed value, the entry GET:<name> is gone and the cache holds the value.
C2_GetResolved ==
  [][\A c \in Callers : \A name \in Names : \A raw \in Raws :
       (pc[c] = "get_wait" /\ arg[c].name = name /\ ~FutDone(fut[c])
        /\ _connected /\ recv' = CRLF(LineGET(name, raw)))
       => /\ fut'[c].st = "result"
          /\ fut'[c].v = _parse_value(raw)
          /\ KeyGET(name) \notin DOMAIN _pending_responses'
          /\ name \in DOMAIN _variables'
          /\ _variables'[name] = _parse_value(raw)]_vars

\* a receive loop saw a zero-length read or a read error in this step
LossStep ==
  \E t \in 1..Len(rtask) :
    /\ rtask[t].st = "read" /\ ~rtask[t].cancel
    /\ conn[rtask[t].conn] # "open"
    /\ rtask'[t].st = "done"

\* C3: a request whose future is in the pending table when the receive loop
\* sees the connection lost is failed with ConnectionError, and a call whose
\* request was failed that way ends by raising ConnectionError.
C3_LossRaisesConnectionError ==
  [][\A c \in Callers :
       /\ (LossStep /\ InFlight(c) /\ Registered(c))
          => (fut'[c].st = "exception" /\ fut'[c].exc = "ConnectionError")
       /\ (InRequest(c) /\ fut[c].st = "exception"
           /\ fut[c].exc = "ConnectionError" /\ pc'[c] = "idle")
          => ret'[c].kind = "ConnectionError"]_vars

\* the step in which disconnect() returns
DisconnectReturns == \E d \in Callers : ret'[d].op = "disconnect"

\* C4: when disconnect() returns, every request that was pending has been
\* failed with ConnectionError and the pending table is empty.
C4_DisconnectFailsPending ==
  [][DisconnectReturns
       => /\ _pending_responses' = EmptyDict
          /\ \A c \in Callers :
               (InFlight(c) /\ Registered(c))
               => (fut'[c].st = "exception"
                   /\ fut'[c].exc = "ConnectionError")]_vars

DiscStates == {"disc_read", "disc_reconnect", "disc_close"}

\* C6: when disconnect() returns, no reconnection task is left sleeping or
\* connecting or re-issuing subscriptions (a task that has not run yet ends
\* at its first step); and once disconnect() has returned, the client
\* becomes connected again only by a caller's connect(), never by automatic
\* reconnection.
C6_DisconnectIsTerminal ==
  [][/\ DisconnectReturns
        => \A t \in 1..Len(ctask') : ctask'[t].st \in {"start", "done"}
     /\ (/\ ~_reconnect_enabled
         /\ \A c \in Callers : pc[c] \notin DiscStates
         /\ ~_connected /\ _connected')
        => \E c \in Callers : pc[c] = "connecting" /\ pc'[c] = "idle"]_vars

\* C7: a get_variable whose timeout elapses with its future unresolved
\* raises TimeoutError, and when get_variable ends with TimeoutError or with
\* ConnectionError the pending table has no entry GET:<name>.
C7_TimeoutLeavesNoEntry ==
  [][\A c \in Callers :
       /\ (pc[c] = "get_wait" /\ ~FutDone(fut[c]) /\ pc'[c] = "idle")
          => ret'[c].kind = "TimeoutError"
       /\ (ret'[c].op = "get"
           /\ ret'[c].kind \in {"TimeoutError", "ConnectionError"})
          => KeyGET(ret'[c].name) \notin DOMAIN _pending_responses']_vars

\* a get_variable has just ended with TimeoutError
C7_Witness ==
  \E c \in Callers : ret[c].op = "get" /\ ret[c].kind = "TimeoutError"

\* SpecGet: get_variable alone.  Callers connect, disconnect and issue
\* get_variable("A"); the PLC answers, closes or resets the connection.
MaxOpsGet  == 3   \* operations started by callers in one behaviour
MaxRecvGet == 1   \* chunks received from the PLC in one behaviour
ChunksGet == { CRLF(LineGET(NameA, <<"1">>)) }

InitGet == InitClient(TRUE, MaxOpsGet, MaxRecvGet)

NextGet ==
  \/ Tasks
  \/ Cancelled
  \/ \E t \in TaskIds : \E data \in ChunksGet : read_loop_data(t, data)
  \/ \E c \in Callers :
       \/ connect(c) \/ connect_done(c) \/ connect_failed(c)
       \/ \E d \in Drains : get_variable(c, NameA, d)
       \/ get_variable_drained(c)
       \/ get_variable_resume(c)
       \/ get_variable_timeout(c)
       \/ disconnect(c)
       \/ disconnect_read_awaited(c)
       \/ disconnect_reconnect_awaited(c)
       \/ disconnect_closed(c)

SpecGet == InitGet /\ [][NextGet]_vars

\* SpecSub: subscriptions and reconnection.  Callers connect, register a
\* callback for "A" or "B", and issue get_variable("A") and
\* set_variable("A", 1); the PLC closes or resets the connection and the
\* reconnection task re-issues EN:<name> for the subscription table.
MaxOpsSub == 4   \* operations started by callers in one behaviour

InitSub == InitClient(TRUE, MaxOpsSub, 0)

NextSub ==
  \/ Tasks
  \/ \E t \in TaskIds : \E stopAt \in StopAts : reconnect_drained(t, stopAt)
  \/ \E c \in Callers :
       \/ connect(c) \/ connect_done(c) \/ connect_failed(c)
       \/ \E name \in Names : register_callback(c, "f", name)
       \/ \E d \in Drains : get_variable(c, NameA, d)
       \/ get_variable_drained(c)
       \/ get_variable_timeout(c)
       \/ get_variable_resume(c)
       \/ \E d \in Drains : set_variable(c, NameA, IntVal(1), d)
       \/ set_variable_drained(c)

SpecSub == InitSub /\ [][NextSub]_vars

\* the reconnection task t has written EN for the it-th key of the
\* subscription table on the connection the client uses, and further keys
\* follow
Resubscribing(t) ==
  /\ ctask[t].st = "en_drain"
  /\ ~ctask[t].cancel
  /\ ctask[t].it < ctask[t].size
  /\ ctask[t].size = Len(_callbacks)
  /\ _connected
  /\ _writer = ctask[t].conn
  /\ conn[ctask[t].conn] = "open"

\* C5: while the reconnection task is re-issuing EN:<name> on the new
\* connection and has not written the last one, the only commands written
\* are its own: no GET or SET of a caller goes out in between.
C5_ResubscribeBeforeCallers ==
  [][\A t \in 1..Len(ctask) :
       (Resubscribing(t) /\ wire' # <<>>) => ctask'[t] # ctask[t]]_vars

\* SpecDispatch: value updates and callbacks.  The client is built with
\* reconnect=False; callers connect, register the callbacks "f" and "bad"
\* (which raises) for "A", for "B" or globally, and issue
\* get_variable("A"), whose command is drained without suspending; the PLC
\* answers, pushes DIFF lines or closes the connection.
MaxOpsDispatch  == 4   \* operations started by callers in one behaviour
MaxRecvDispatch == 1   \* chunks received from the PLC in one behaviour
Callbacks == {"f", "bad"}
ChunksDispatch ==
  { CRLF(LineGET(NameA, <<"1">>)),
    CRLF(LineDIFF(NameA, <<"2">>)),
    CRLF(LineDIFF(NameB, <<"t","r","u","e">>)) }

InitDispatch == InitClient(FALSE, MaxOpsDispatch, MaxRecvDispatch)

NextDispatch ==
  \/ \E t \in TaskIds : read_loop_start(t)
  \/ \E t \in TaskIds : \E data \in ChunksDispatch : read_loop_data(t, data)
  \/ \E t \in TaskIds : read_loop_eof(t)
  \/ \E k \in TaskIds : peer_close(k)
  \/ \E c \in Callers :
       \/ connect(c) \/ connect_done(c) \/ connect_failed(c)
       \/ \E callback \in Callbacks : \E name \in {NameA, <<>>} :
            register_callback(c, callback, name)
       \/ register_callback(c, "f", NameB)
       \/ \E d \in {"ok", "raise"} : get_variable(c, NameA, d)
       \/ get_variable_resume(c)
       \/ get_variable_timeout(c)

SpecDispatch == InitDispatch /\ [][NextDispatch]_vars

\* the callbacks an update of name is dispatched to
OwnCallbacks(name) ==
  IF HasKey(_callbacks, name) THEN Lookup(_callbacks, name) ELSE <<>>
Dispatched(name) == OwnCallbacks(name) \o _global_callbacks
IsPrefix(a, b) == Len(a) <= Len(b) /\ SubSeq(b, 1, Len(a)) = a
\* exactly one receive loop exists, and it waits in read()
OneReader ==
  \E t \in 1..Len(rtask) :
    /\ rtask[t].st = "read" /\ ~rtask[t].cancel
    /\ \A u \in 1..Len(rtask) : u # t => rtask[u].st = "done"
\* get_variable(name) of caller c waits with its future in the table
GetPending(c, name) ==
  /\ pc[c] = "get_wait" /\ arg[c].name = name
  /\ ~FutDone(fut[c]) /\ Registered(c)

\* C8: when the receive loop processes DIFF:<name>,<raw>, no future gets a
\* result, the pending table and the futures stay as they are unless the
\* connection is torn down, the cache holds the parsed value and the update
\* is dispatched once, to the callbacks of name and the global callbacks.
C8_DiffIsPushOnly ==
  [][\A name \in Names : \A raw \in Raws :
       recv' = CRLF(LineDIFF(name, raw))
       => /\ \A c \in Callers :
               fut'[c].st = "result" => fut[c].st = "result"
          /\ _connected' =>
               (_pending_responses' = _pending_responses /\ fut' = fut)
          /\ name \in DOMAIN _variables'
          /\ _variables'[name] = _parse_value(raw)
          /\ calls' = <<[name |-> name, value |-> _parse_value(raw),
                         seen |-> _parse_value(raw),
                         invoked |-> Dispatched(name)]>>]_vars

\* a DIFF for "A" was processed while get_variable("A") was pending, and
\* callbacks were invoked
C8_Witness ==
  /\ recv = CRLF(LineDIFF(NameA, <<"2">>))
  /\ \E c \in Callers : GetPending(c, NameA)
  /\ _connected
  /\ Len(calls) = 1 /\ Len(calls[1].invoked) >= 2

\* C9: every dispatch invokes the callbacks registered for the updated name
\* in the order they were registered, then the global callbacks in the
\* order they were registered, and nothing else; registration appends to
\* the end of the list it extends.
C9_DispatchOrder ==
  [][/\ \A i \in 1..Len(calls') :
          calls'[i].invoked = OwnCallbacks(calls'[i].name)
                                \o _global_callbacks
     /\ recv' # <<>> => (/\ Len(calls') = 1
                         /\ _callbacks' = _callbacks
                         /\ _global_callbacks' = _global_callbacks)
     /\ \A c \in Callers : \A name \in Names :
          ret'[c].op = "register"
          => \/ /\ OwnCallbacks(name)' = OwnCallbacks(name)
                /\ Len(_global_callbacks') = Len(_global_callbacks) + 1
                /\ IsPrefix(_global_callbacks, _global_callbacks')
             \/ /\ _global_callbacks' = _global_callbacks
                /\ IsPrefix(OwnCallbacks(name), OwnCallbacks(name)')
                /\ Len(OwnCallbacks(name)') <= Len(OwnCallbacks(name)) + 1
    ]_vars

\* an update of "A" was dispatched to two different callbacks of "A" and
\* then to a global callback that differs from the last of them
C9_Witness ==
  /\ Len(calls) = 1 /\ calls[1].name = NameA
  /\ Len(OwnCallbacks(NameA)) = 2
  /\ OwnCallbacks(NameA)[1] # OwnCallbacks(NameA)[2]
  /\ Len(_global_callbacks) = 1
  /\ _global_callbacks[1] # OwnCallbacks(NameA)[2]
  /\ calls[1].invoked = OwnCallbacks(NameA) \o _global_callbacks

\* C10: when an update of name is dispatched to a callback that raises and
\* one receive loop serves the connected client, every callback of the
\* update is still invoked, a pending get_variable(name) answered by the
\* update gets its value, no request is failed, and the client stays
\* connected with its receive loop waiting in read().
C10_RaisingCallbackIsContained ==
  [][\A name \in Names : \A raw \in Raws :
       (/\ recv' \in {CRLF(LineGET(name, raw)), CRLF(LineDIFF(name, raw))}
        /\ _connected /\ OneReader
        /\ \E i \in 1..Len(Dispatched(name)) :
             Dispatched(name)[i] \in Raising)
       => /\ Len(calls') = 1
          /\ Len(calls'[1].invoked) = Len(Dispatched(name))
          /\ \A c \in Callers :
               /\ (GetPending(c, name) /\ recv' = CRLF(LineGET(name, raw)))
                  => (fut'[c].st = "result"
                      /\ fut'[c].v = _parse_value(raw))
               /\ fut'[c].st = "exception" => fut[c].st = "exception"
          /\ _connected' /\ _writer' = _writer /\ _reader' = _reader
          /\ conn' = conn
          /\ OneReader']_vars

\* a GET answer for the pending get_variable("A") was dispatched to a
\* raising callback followed by another callback
C10_Witness ==
  /\ recv = CRLF(LineGET(NameA, <<"1">>))
  /\ Len(calls) = 1 /\ Len(calls[1].invoked) >= 2
  /\ calls[1].invoked[1] \in Raising
  /\ \E c \in Callers :
       pc[c] = "get_wait" /\ fut[c].st = "result" /\ fut[c].v = IntVal(1)
  /\ _connected /\ OneReader

\* SpecReconnect: reconnection alone, with fair scheduling.  Callers
\* connect and register callbacks for "A" and "B"; the PLC closes or resets
\* the connection.  The event loop runs every task that is ready and ends
\* every sleep (weak fairness); a connection attempt that is made again and
\* again succeeds at last (strong fairness).
MaxOpsReconnect == 2   \* operations started by callers in one behaviour

InitReconnect == InitClient(TRUE, MaxOpsReconnect, 0)

NextReconnect ==
  \/ Tasks
  \/ \E t \in TaskIds : \E stopAt \in StopAts : reconnect_drained(t, stopAt)
  \/ \E c \in Callers :
       \/ connect(c) \/ connect_done(c) \/ connect_failed(c)
       \/ \E name \in Names : register_callback(c, "f", name)

FairReconnect ==
  \A t \in TaskIds :
    /\ WF_vars(read_loop_start(t))
    /\ WF_vars(read_loop_eof(t))
    /\ WF_vars(read_loop_error(t))
    /\ WF_vars(reconnect_start(t))
    /\ WF_vars(\E stopAt \in StopAts : reconnect_wake(t, stopAt))
    /\ SF_vars(\E stopAt \in StopAts : reconnect_connected(t, stopAt))

SpecReconnect == InitReconnect /\ [][NextReconnect]_vars /\ FairReconnect

\* the connection was lost with reconnection enabled, and a further
\* connection can be opened
Reconnecting ==
  /\ ~_connected /\ _reconnect_enabled
  /\ Len(ctask) > 0
  /\ Len(conn) < MaxConn

\* C11: with reconnection enabled and no disconnect(), a client that lost
\* its connection is connected again at last, however many reconnection
\* attempts fail before one succeeds.
C11_RetriesUntilConnected == Reconnecting ~> _connected

\* a reconnection attempt has failed and the task sleeps before the next
C11_Witness ==
  /\ Reconnecting
  /\ \E t \in 1..Len(ctask) : ctask[t].failed /\ ctask[t].st = "sleep"

\* C12: when a receive loop sees a zero-length read or a read error while
\* the client is connected, the client is not connected afterwards, the
\* pending table is empty, and a reconnection task is created and stored in
\* _reconnect_task exactly when reconnection is enabled.
C12_LossHandling ==
  [][(LossStep /\ _connected)
       => /\ ~_connected'
          /\ _pending_responses' = EmptyDict
          /\ _reconnect_enabled
               => /\ Len(ctask') = Len(ctask) + 1
                  /\ _reconnect_task' = Len(ctask')
                  /\ ctask'[Len(ctask')] = NewReconnectTask
          /\ ~_reconnect_enabled
               => (ctask' = ctask /\ _reconnect_task' = _reconnect_task)]_vars

\* a pending request was failed by a connection loss, the client is not
\* connected and the reconnection task created for it has not run yet
C12_Witness ==
  /\ ~_connected
  /\ _pending_responses = EmptyDict
  /\ \E c \in Callers :
       InRequest(c) /\ fut[c].st = "exception"
       /\ fut[c].exc = "ConnectionError"
  /\ _reconnect_task = Len(ctask) /\ Len(ctask) = 1
  /\ ctask[1] = NewReconnectTask

\* the receive loops that have not ended and are not cancelled
ActiveReaders ==
  {t \in 1..Len(rtask) : rtask[t].st # "done" /\ ~rtask[t].cancel}

\* C13: at most one receive loop is active at any time, whatever connect()
\* calls of callers and of the reconnection task interleave.
C13_SingleReceiveLoop == Cardinality(ActiveReaders) <= 1

(***************************************************************************)
(* SpecSend: the write path.  Callers connect and issue set_variable,      *)
(* enable_monitoring and disable_monitoring; a drain may suspend, so the   *)
(* commands of two callers overlap; the PLC sends nothing and may close    *)
(* or reset the connection.  Reconnection is off.                          *)
(***************************************************************************)
MaxOpsSend == 3   \* operations started by callers in one behaviour
ValuesSend ==
  {IntVal(1), BoolVal(TRUE), StrVal(<<"o","n">>), FloatVal(25, 1)}
DeltasSend == {IntVal(0), IntVal(5)}

InitSend == InitClient(FALSE, MaxOpsSend, 0)

NextSend ==
  \/ \E t \in TaskIds : read_loop_start(t)
  \/ \E t \in TaskIds : read_loop_eof(t)
  \/ \E t \in TaskIds : read_loop_error(t)
  \/ \E k \in TaskIds : peer_close(k)
  \/ \E k \in TaskIds : peer_reset(k)
  \/ \E c \in Callers :
       \/ connect(c) \/ connect_done(c) \/ connect_failed(c)
       \/ \E value \in ValuesSend : \E d \in Drains :
            set_variable(c, NameA, value, d)
       \/ set_variable_drained(c)
       \/ \E delta \in DeltasSend : \E callback \in {"", "f"} :
            \E d \in Drains : enable_monitoring(c, NameA, delta, callback, d)
       \/ enable_monitoring_drained(c)
       \/ \E d \in Drains : disable_monitoring(c, NameA, d)
       \/ disable_monitoring_drained(c)

SpecSend == InitSend /\ [][NextSend]_vars

\* the data of one write() is one whole line: it ends with CR LF and has
\* no CR or LF before that
OneLine(data) ==
  /\ Len(data) > 2
  /\ SubSeq(data, Len(data) - 1, Len(data)) = <<CR, LF>>
  /\ \A i \in 1..(Len(data) - 2) : data[i] \notin {CR, LF}
\* the callers suspended in the drain of a command they have written
Draining == {c \in Callers : pc[c] \in {"set_drain", "en_drain", "di_drain"}}

\* C14: every command reaches the stream as one contiguous line: each
\* write() hands the transport a command text with its CR LF, also while
\* other callers are suspended in the drain of their own command.
C14_WholeLinesOnWire == \A i \in 1..Len(wire) : OneLine(wire[i])
C14_Witness ==
  /\ Len(wire) = 1 /\ OneLine(wire[1])
  /\ Cardinality(Draining) = 2
  /\ \A c \in Draining : arg[c].conn = _writer

\* caller c takes the first step of set_variable
SetStep(c) ==
  /\ pc[c] = "idle"
  /\ pc'[c] = "set_drain" \/ ret'[c].op = "set"
\* the lines set_variable("A", v) must write for the values of ValuesSend
SetLines ==
  { <<"S","E","T",":","A",",","1",CR,LF>>,
    <<"S","E","T",":","A",",","t","r","u","e",CR,LF>>,
    <<"S","E","T",":","A",",","\"","o","n","\"",CR,LF>>,
    <<"S","E","T",":","A",",","2",".","5",CR,LF>> }

\* C20: set_variable registers no pending request and creates no future;
\* on a connected client it writes exactly one line SET:<name>,<formatted
\* value>, on a client that is not connected it writes nothing and raises
\* ConnectionError; it returns after the drain, without anything received.
C20_SetIsFireAndForget ==
  [][\A c \in Callers :
       /\ SetStep(c) =>
            /\ _pending_responses' = _pending_responses
            /\ fut' = fut
            /\ (_connected /\ _writer # 0)
                 => (Len(wire') = 1 /\ wire'[1] \in SetLines)
            /\ ~(_connected /\ _writer # 0)
                 => (wire' = <<>> /\ ret'[c].kind = "ConnectionError")
       /\ (pc[c] = "set_drain" /\ pc'[c] # "set_drain") =>
            /\ pc'[c] = "idle" /\ ret'[c].op = "set"
            /\ ret'[c].kind \in {"ok", "ConnectionError"}
            /\ wire' = <<>> /\ recv' = <<>>
            /\ _pending_responses' = _pending_responses]_vars
C20_Witness ==
  /\ \E c \in Callers : ret[c].op = "set" /\ ret[c].kind = "ok"
  /\ Len(wire) = 1 /\ wire[1] \in SetLines
  /\ _connected /\ _pending_responses = EmptyDict

(***************************************************************************)
(* SpecList: list_variables.  Callers connect and call list_variables();   *)
(* the PLC sends LIST lines, one or two in a chunk, and may close the      *)
(* connection.  Reconnection is off.                                       *)
(***************************************************************************)
MaxOpsList  == 3   \* operations started by callers in one behaviour
MaxRecvList == 2   \* chunks received from the PLC in one behaviour
LineListA == <<"L","I","S","T",":","A",",","I","N","T","*">>
LineListB == <<"L","I","S","T",":","B">>
ChunksList ==
  { CRLF(LineListA), CRLF(LineListB), CRLF(LineListA) \o CRLF(LineListB) }

InitList == InitClient(FALSE, MaxOpsList, MaxRecvList)

NextList ==
  \/ \E t \in TaskIds : read_loop_start(t)
  \/ \E t \in TaskIds : \E data \in ChunksList : read_loop_data(t, data)
  \/ \E t \in TaskIds : read_loop_eof(t)
  \/ \E k \in TaskIds : peer_close(k)
  \/ \E c \in Callers :
       \/ connect(c) \/ connect_done(c) \/ connect_failed(c)
       \/ \E d \in Drains : list_variables(c, d)
       \/ list_variables_drained(c)
       \/ list_variables_done(c)

SpecList == InitList /\ [][NextList]_vars

\* the entries the lines of a chunk stand for
EntryA == [name |-> NameA, type |-> <<"I","N","T">>]
EntryB == [name |-> NameB, type |-> <<"U","N","K","N","O","W","N">>]
EntriesOf(data) ==
  IF data = CRLF(LineListA) THEN <<EntryA>>
  ELSE IF data = CRLF(LineListB) THEN <<EntryB>>
  ELSE IF data = CRLF(LineListA) \o CRLF(LineListB) THEN <<EntryA, EntryB>>
  ELSE <<>>
\* the caller has sent LIST: and its window is open
InListWindow(c) == pc[c] \in {"list_drain", "list_sleep"}

\* C15: a list_variables call starts with an empty list, every chunk of
\* LIST lines received while its window is open adds the entries of its
\* lines in arrival order (type without the trailing *, UNKNOWN for a bare
\* name), and when the sleep is over the call returns the entries so
\* collected.
C15_ListCollectsAllLines ==
  [][\A c \in Callers :
       /\ (~InListWindow(c) /\ InListWindow(c)') => fut'[c].var_list = <<>>
       /\ (InListWindow(c) /\ InListWindow(c)' /\ recv' # <<>>)
            => fut'[c].var_list = fut[c].var_list \o EntriesOf(recv')
       /\ (InListWindow(c) /\ InListWindow(c)' /\ recv' = <<>>)
            => fut'[c].var_list = fut[c].var_list
       /\ (pc[c] = "list_sleep" /\ pc'[c] = "idle")
            => (ret'[c].kind = "value" /\ ret'[c].list = fut[c].var_list)]_vars

(***************************************************************************)
(* SpecDisc: teardown.  Callers connect, register callbacks and            *)
(* disconnect; the PLC may close the connection, the reconnection task     *)
(* sleeps, connects and re-issues the subscriptions.                       *)
(***************************************************************************)
MaxOpsDisc == 4   \* operations started by callers in one behaviour

InitDisc == InitClient(TRUE, MaxOpsDisc, 0)

NextDisc ==
  \/ \E t \in TaskIds : read_loop_start(t)
  \/ \E t \in TaskIds : read_loop_eof(t)
  \/ \E k \in TaskIds : peer_close(k)
  \/ \E t \in TaskIds : reconnect_start(t)
  \/ \E t \in TaskIds : \E stopAt \in StopAts : reconnect_wake(t, stopAt)
  \/ \E t \in TaskIds : \E stopAt \in StopAts :
       reconnect_connected(t, stopAt)
  \/ \E t \in TaskIds : \E stopAt \in StopAts : reconnect_drained(t, stopAt)
  \/ Cancelled
  \/ \E c \in Callers :
       \/ connect(c) \/ connect_done(c)
       \/ \E name \in Names : register_callback(c, "f", name)
       \/ disconnect(c)
       \/ disconnect_read_awaited(c)
       \/ disconnect_reconnect_awaited(c)
       \/ disconnect_closed(c)

SpecDisc == InitDisc /\ [][NextDisc]_vars

\* the state a completed disconnect() leaves, which is also the state of a
\* client that was never connected: not connected, no task and no socket
\* held, nothing pending
TornDown ==
  /\ ~_connected
  /\ _read_task = 0 /\ _reconnect_task = 0
  /\ _writer = 0 /\ _reader = 0
  /\ _pending_responses = EmptyDict
\* caller c takes the first step of disconnect()
DisconnectStart(c) ==
  /\ pc[c] = "idle"
  /\ pc'[c] \in DiscStates \/ ret'[c].op = "disconnect"

\* C16: disconnect() on a client that is torn down (by an earlier
\* disconnect(), or never connected) returns at once without an error and
\* changes nothing: the client stays not connected, with no task, no socket
\* and an empty pending table, and reconnection is disabled.
C16_DisconnectIsIdempotent ==
  [][\A c \in Callers :
       (DisconnectStart(c) /\ TornDown)
       => /\ pc'[c] = "idle" /\ ret'[c].kind = "ok"
          /\ TornDown' /\ ~_reconnect_enabled'
          /\ rtask' = rtask /\ ctask' = ctask /\ conn' = conn
          /\ fut' = fut]_vars
\* two disconnect() calls have returned on a client that never connected
C16_Witness ==
  /\ \E c \in Callers : ret[c].op = "disconnect" /\ ret[c].kind = "ok"
  /\ \A c \in Callers : pc[c] = "idle"
  /\ ops = MaxOpsDisc - 2
  /\ conn = <<>> /\ _callbacks = <<>>
  /\ TornDown /\ ~_reconnect_enabled

\* C17: whenever disconnect() returns, normally or with an exception, the
\* client holds no socket (it was closed and released) and the pending
\* table is empty.
C17_DisconnectAlwaysReleases ==
  [][DisconnectReturns
       => /\ _writer' = 0 /\ _reader' = 0
          /\ _pending_responses' = EmptyDict]_vars

(***************************************************************************)
(* SpecLive: requests under fair scheduling.  Callers connect, disconnect  *)
(* and issue get_variable("A") and get_info("v"); the PLC answers, reports *)
(* an error, closes or resets the connection.  Reconnection is off.  The   *)
(* event loop runs every task that can run and fires every timer: the      *)
(* receive loop, the timeout and the wake-up of wait_for and the steps of  *)
(* disconnect() are weakly fair, and so is the end of a drain whose        *)
(* connection was closed or lost.  What the PLC sends, whether it reads    *)
(* what was written (the end of a drain on a live connection) and when     *)
(* callers call are not.                                                   *)
(***************************************************************************)
MaxOpsLive  == 3   \* operations started by callers in one behaviour
MaxRecvLive == 1   \* chunks received from the PLC in one behaviour
LineERROR == <<"E","R","R","O","R",":","3","3">>
ChunksLive ==
  { CRLF(LineGET(NameA, <<"1">>)),
    CRLF(<<"G","E","T","I","N","F","O",":","v","7">>),
    CRLF(LineERROR) }

InitLive == InitClient(FALSE, MaxOpsLive, MaxRecvLive)

NextLive ==
  \/ \E t \in TaskIds : read_loop_start(t)
  \/ \E t \in TaskIds : \E data \in ChunksLive : read_loop_data(t, data)
  \/ \E t \in TaskIds : read_loop_eof(t)
  \/ \E t \in TaskIds : read_loop_error(t)
  \/ \E t \in TaskIds : read_loop_cancelled(t)
  \/ \E k \in TaskIds : peer_close(k)
  \/ \E k \in TaskIds : peer_reset(k)
  \/ \E c \in Callers :
       \/ connect(c) \/ connect_done(c) \/ connect_failed(c)
       \/ \E d \in Drains : get_variable(c, NameA, d)
       \/ get_variable_drained(c)
       \/ get_variable_resume(c)
       \/ get_variable_timeout(c)
       \/ \E d \in Drains : get_info(c, <<"v">>, d)
       \/ get_info_drained(c)
       \/ get_info_resume(c)
       \/ get_info_timeout(c)
       \/ disconnect(c)
       \/ disconnect_read_awaited(c)
       \/ disconnect_closed(c)

\* the transport of the connection a caller drains was closed or lost: the
\* event loop calls connection_lost, which wakes the drain
DrainWoken(c) ==
  /\ arg[c].conn \in 1..Len(conn)
  /\ conn[arg[c].conn] \in {"closed", "err"}

FairLive ==
  /\ \A t \in TaskIds :
       /\ WF_vars(read_loop_start(t))
       /\ WF_vars(read_loop_eof(t))
       /\ WF_vars(read_loop_error(t))
       /\ WF_vars(read_loop_cancelled(t))
  /\ \A c \in Callers :
       /\ WF_vars(get_variable_resume(c))
       /\ WF_vars(get_variable_timeout(c))
       /\ WF_vars(get_info_resume(c))
       /\ WF_vars(get_info_timeout(c))
       /\ WF_vars(disconnect_read_awaited(c))
       /\ WF_vars(disconnect_closed(c))
       /\ WF_vars(DrainWoken(c) /\ get_variable_drained(c))
       /\ WF_vars(DrainWoken(c) /\ get_info_drained(c))

SpecLive == InitLive /\ [][NextLive]_vars /\ FairLive

\* the caller is suspended inside get_variable or get_info
Requesting(c) ==
  pc[c] \in {"get_drain", "get_wait", "info_drain", "info_wait"}

\* C18: a caller suspended inside get_variable or get_info eventually gets
\* the call back (with a value or an exception), whatever the PLC does and
\* also when disconnect() or a connection loss happens meanwhile.
C18_RequestsReturn ==
  \A c \in Callers : Requesting(c) ~> (pc[c] = "idle")

\* C19: an ERROR line received while a get_variable is the one pending
\* request fails that request with ProtocolError, and a get_variable whose
\* request was failed that way ends by raising ProtocolError.
C19_ErrorFailsPendingGet ==
  [][\A c \in Callers :
       /\ (/\ pc[c] = "get_wait" /\ ~FutDone(fut[c])
           /\ DOMAIN _pending_responses = {KeyGET(arg[c].name)}
           /\ _pending_responses[KeyGET(arg[c].name)] = c
           /\ recv' = CRLF(LineERROR))
          => (fut'[c].st = "exception" /\ fut'[c].exc = "ProtocolError")
       /\ (pc[c] = "get_wait" /\ fut[c].st = "exception"
           /\ fut[c].exc = "ProtocolError" /\ pc'[c] = "idle")
          => ret'[c].kind = "ProtocolError"]_vars

\* what connect() can see or change of the client
ClientState ==
  <<_connected, _reader, _writer, _read_task, _reconnect_task, _buffer,
    _variables, _pending_responses, _callbacks, _global_callbacks, fut,
    rtask, ctask, conn, _reconnect_enabled>>

\* C21: a connect() that fails raises ConnectionError and changes nothing,
\* so a client that was not connected stays not connected, with no socket
\* and no new receive loop; a connect() that succeeds stores the new
\* stream, sets the connected flag and starts exactly one receive loop; a
\* connect() on a connected client returns at once and changes nothing.
C21_ConnectOutcomes ==
  [][\A c \in Callers :
       /\ (pc[c] = "connecting" /\ pc'[c] = "idle"
           /\ ret'[c].kind # "ok")
          => /\ ret'[c].op = "connect"
             /\ ret'[c].kind = "ConnectionError"
             /\ ClientState' = ClientState
       /\ (pc[c] = "connecting" /\ pc'[c] = "idle"
           /\ ret'[c].kind = "ok")
          => /\ _connected'
             /\ conn' = Append(conn, "open")
             /\ _reader' = Len(conn') /\ _writer' = Len(conn')
             /\ rtask' = Append(rtask, NewReadTask)
             /\ _read_task' = Len(rtask')
             /\ ctask' = ctask
             /\ _pending_responses' = _pending_responses
       /\ (pc[c] = "idle" /\ ret'[c].op = "connect")
          => /\ _connected /\ ret'[c].kind = "ok"
             /\ ClientState' = ClientState
       /\ (pc[c] = "idle" /\ pc'[c] = "connecting")
          => (~_connected /\ ClientState' = ClientState)]_vars
\* the first connect() of a behaviour has succeeded
C21_Witness ==
  /\ \E c \in Callers : ret[c].op = "connect" /\ ret[c].kind = "ok"
  /\ _connected /\ conn = <<"open">>
  /\ _reader = 1 /\ _writer = 1
  /\ rtask = <<NewReadTask>> /\ _read_task = 1

(***************************************************************************)
(* SpecParse: value parsing and formatting.  The PLC answers GET:A with a  *)
(* raw payload of ParseTable, or with the text _format_value gives for a   *)
(* value of ValuesRT; the receive loop parses the payload into the cache.  *)
(***************************************************************************)
MaxOpsParse  == 2   \* operations started by callers in one behaviour
MaxRecvParse == 2   \* chunks received from the PLC in one behaviour

\* raw payloads and the Python value each must parse to
ParseTable ==
  { <<<<"\"","h","e","l","l","o","\"">>, StrVal(<<"h","e","l","l","o">>)>>,
    <<<<"\"","1","2","\"">>,             StrVal(<<"1","2">>)>>,
    <<<<"\"","t","r","u","e","\"">>,     StrVal(<<"t","r","u","e">>)>>,
    <<<<" ","\"","x"," ","\""," ">>,     StrVal(<<"x"," ">>)>>,
    <<<<"\"","\"">>,                     StrVal(<<>>)>>,
    <<<<"T","R","U","E">>,               BoolVal(TRUE)>>,
    <<<<"t","r","u","e">>,               BoolVal(TRUE)>>,
    <<<<" ","F","a","l","s","e">>,       BoolVal(FALSE)>>,
    <<<<"1","2">>,                       IntVal(12)>>,
    <<<<" ","1","2"," ">>,               IntVal(12)>>,
    <<<<"-","7">>,                       IntVal(-7)>>,
    <<<<"+","5">>,                       IntVal(5)>>,
    <<<<"0","0","7">>,                   IntVal(7)>>,
    <<<<"1","_","0">>,                   IntVal(10)>>,
    <<<<"1","2",".","5">>,               FloatVal(125, 1)>>,
    <<<<"-","0",".","5","0">>,           FloatVal(-5, 1)>>,
    <<<<"3",".">>,                       FloatVal(3, 0)>>,
    <<<<"a","b","c">>,                   StrVal(<<"a","b","c">>)>>,
    <<<<" ","a","b","c"," ">>,           StrVal(<<"a","b","c">>)>>,
    <<<<"1","a">>,                       StrVal(<<"1","a">>)>>,
    <<<<"1","_">>,                       StrVal(<<"1","_">>)>>,
    <<<<"1",".","2",".","3">>,           StrVal(<<"1",".","2",".","3">>)>>,
    <<<<".">>,                           StrVal(<<".">>)>>,
    <<<<"t","r"," ","u","e">>,           StrVal(<<"t","r"," ","u","e">>)>>,
    <<<<>>,                              StrVal(<<>>)>> }

\* booleans, integers and strings to format and parse back
ValuesRT ==
  { BoolVal(TRUE), BoolVal(FALSE),
    IntVal(0), IntVal(7), IntVal(-7), IntVal(120),
    StrVal(<<>>), StrVal(<<"a","b","c">>), StrVal(<<"7">>),
    StrVal(<<"t","r","u","e">>), StrVal(<<" ","x"," ">>),
    StrVal(<<"\"">>), StrVal(<<"1",".","5">>) }

\* the line that answers GET:A with the formatted value
Echo(v) == CRLF(LineGET(NameA, _format_value(v)))

ChunksParse ==
  { CRLF(LineGET(NameA, p[1])) : p \in ParseTable }
  \cup { Echo(v) : v \in ValuesRT }

InitParse == InitClient(FALSE, MaxOpsParse, MaxRecvParse)

NextParse ==
  \/ \E t \in TaskIds : read_loop_start(t)
  \/ \E t \in TaskIds : \E data \in ChunksParse : read_loop_data(t, data)
  \/ \E c \in Callers : connect(c) \/ connect_done(c)

SpecParse == InitParse /\ [][NextParse]_vars

\* C24: the payload of a GET line is parsed by the rules in order, on the
\* trimmed text: quoted text gives the string between the quotes, true or
\* false in any case a boolean, text with "." a float, other text an
\* integer, and text that is no number stays a string.
C24_ParseRules ==
  \A p \in ParseTable :
    recv = CRLF(LineGET(NameA, p[1]))
    => (NameA \in DOMAIN _variables /\ _variables[NameA] = p[2])
\* the payload "12" has been parsed to the integer 12
C24_Witness ==
  /\ recv = CRLF(LineGET(NameA, <<"1","2">>))
  /\ _variables = Put(EmptyDict, NameA, IntVal(12))

\* C25: a boolean, an integer or a string that is formatted and parsed is
\* the same value again; and a payload that parses to a boolean or an
\* integer gives, formatted, a text that parses to that value.
C25_ParseFormatRoundTrip ==
  /\ \A v \in ValuesRT :
       recv = Echo(v)
       => (NameA \in DOMAIN _variables /\ _variables[NameA] = v)
  /\ \A p \in ParseTable :
       (p[2].t \in {"bool", "int"} /\ recv = Echo(p[2]))
       => (NameA \in DOMAIN _variables /\ _variables[NameA] = p[2])
\* the string "7" came back as a string, not as the integer 7
C25_Witness ==
  /\ recv = Echo(StrVal(<<"7">>))
  /\ _variables = Put(EmptyDict, NameA, StrVal(<<"7">>))

(***************************************************************************)
(* SpecFrame: line framing.  The PLC sends a stream of DIFF lines cut into *)
(* chunks at any place, also between CR and LF and inside a line, with     *)
(* empty lines in between.                                                 *)
(***************************************************************************)
MaxOpsFrame  == 1   \* operations started by callers in one behaviour
MaxRecvFrame == 3   \* chunks received from the PLC in one behaviour
ChunksFrame ==
  { <<"D","I","F","F",":","A",",","1",CR,LF>>,
    <<"D","I","F","F",":","A",",","1",CR>>,
    <<LF>>,
    <<CR>>,
    <<CR,LF>>,
    <<LF,"D","I","F","F",":","B",",","2",CR,LF>>,
    <<"D","I","F","F",":","A",",","1",CR,LF,CR,LF,
      "D","I","F","F",":","B",",","2",CR,LF,"D","I">>,
    <<"F","F",":","A",",","3">>,
    <<CR,LF,"D","I","F","F",":","B",",","4",CR,LF,CR>> }

InitFrame == InitClient(FALSE, MaxOpsFrame, MaxRecvFrame)

NextFrame ==
  \/ \E t \in TaskIds : read_loop_start(t)
  \/ \E t \in TaskIds : \E data \in ChunksFrame : read_loop_data(t, data)
  \/ \E c \in Callers : connect(c) \/ connect_done(c)

SpecFrame == InitFrame /\ [][NextFrame]_vars

\* the texts that precede a CR LF in text, in order, found by scanning the
\* positions from i on; start is where the current text begins
RECURSIVE TerminatedFrom(_, _, _)
TerminatedFrom(text, i, start) ==
  IF i >= Len(text) THEN <<>>
  ELSE IF text[i] = CR /\ text[i + 1] = LF
  THEN <<SubSeq(text, start, i - 1)>> \o TerminatedFrom(text, i + 2, i + 2)
  ELSE TerminatedFrom(text, i + 1, start)
\* what follows the last CR LF of text
RECURSIVE Unterminated(_, _)
Unterminated(text, i) ==
  IF i < 1 THEN text
  ELSE IF i < Len(text) /\ text[i] = CR /\ text[i + 1] = LF
  THEN SubSeq(text, i + 2, Len(text))
  ELSE Unterminated(text, i - 1)
\* the lines processed one after the other, each non-empty one once
RECURSIVE ProcessEach(_, _, _)
ProcessEach(h, lines, k) ==
  IF k > Len(lines) THEN h
  ELSE ProcessEach(IF lines[k] # <<>> THEN _process_response(h, lines[k])
                   ELSE h, lines, k + 1)

\* C27: when a chunk arrives, the receive loop processes exactly the
\* non-empty texts that precede a CR LF in (buffer + chunk), each once and
\* in order, wherever the stream was cut, and the buffer is then what
\* follows the last CR LF, with no CR LF in it.
C27_FramingIgnoresChunking ==
  [][recv' # <<>>
       => LET text == _buffer \o recv'
              h    == ProcessEach(Cur, TerminatedFrom(text, 1, 1), 1)
          IN /\ calls' = h.calls
             /\ _variables' = h.vars
             /\ _buffer' = Unterminated(text, Len(text))
             /\ ~Contains(_buffer', LINE_TERMINATOR)]_vars
\* the LF of a line whose CR ended the chunk before has arrived, and the
\* line was processed
C27_Witness ==
  /\ recv = <<LF>>
  /\ _buffer = <<>>
  /\ Len(calls) = 1
  /\ calls[1].name = NameA /\ calls[1].value = IntVal(1)

\* what a received line can change of the client: everything but the
\* buffer and the position of the receive loop itself
FrameState ==
  <<_connected, _reconnect_enabled, _reader, _writer, _reconnect_task,
    _variables, _pending_responses, _callbacks, _global_callbacks, fut,
    ctask, conn>>

LineGETINFO == <<"G","E","T","I","N","F","O",":","v","7">>
\* caller c is inside get_info
InInfo(c) == pc[c] \in {"info_drain", "info_wait"}

\* C23: get_info("v") on a connected client writes the line GETINFO:v; a
\* GETINFO line received while the call is unresolved resolves it with the
\* payload of the line as a string, which the call returns; a call still
\* unresolved when its timeout elapses raises TimeoutError; when the call
\* has ended no GETINFO entry is pending; and a GETINFO line received with
\* no GETINFO entry pending changes nothing.
C23_GetInfoResolved ==
  [][\A c \in Callers :
       /\ (pc[c] = "idle" /\ InInfo(c)')
          => wire' = <<CRLF(<<"G","E","T","I","N","F","O",":","v">>)>>
       /\ (InInfo(c) /\ ~FutDone(fut[c]) /\ recv' = CRLF(LineGETINFO))
          => (fut'[c].st = "result" /\ fut'[c].v = StrVal(<<"v","7">>))
       /\ (pc[c] = "info_wait" /\ fut[c].st = "result" /\ pc'[c] = "idle")
          => (ret'[c].kind = "value" /\ ret'[c].v = fut[c].v)
       /\ (pc[c] = "info_wait" /\ ~FutDone(fut[c]) /\ pc'[c] = "idle")
          => ret'[c].kind = "TimeoutError"
       /\ ret'[c].op = "info"
          => KeyGETINFO \notin DOMAIN _pending_responses'
       /\ (recv' = CRLF(LineGETINFO)
           /\ KeyGETINFO \notin DOMAIN _pending_responses)
          => (FrameState' = FrameState /\ calls' = <<>>)]_vars

(***************************************************************************)
(* SpecLines: the effect of each kind of line.  Callers connect and have   *)
(* get_variable("A"), get_info("v") and list_variables() pending; the PLC  *)
(* sends answers, pushes, LIST lines, an ERROR line, and a WARNING line, a *)
(* line without colon and a line with an unknown command, each followed by *)
(* a DIFF line in the same chunk, and may close the connection.            *)
(***************************************************************************)
MaxOpsLines  == 2   \* operations started by callers in one behaviour
MaxRecvLines == 2   \* chunks received from the PLC in one behaviour
LineWARNING == <<"W","A","R","N","I","N","G",":","w">>
LineNoColon == <<"j","u","n","k">>
LineUnknown == <<"F","O","O",":","1">>
LineListBool == <<"L","I","S","T",":","B",",","B","O","O","L","*">>
ChunksLines ==
  { CRLF(LineGET(NameA, <<"1">>)),
    CRLF(LineDIFF(NameA, <<"2">>)),
    CRLF(LineListA),
    CRLF(LineListBool),
    CRLF(LineERROR),
    CRLF(LineGETINFO),
    CRLF(LineWARNING) \o CRLF(LineDIFF(NameA, <<"3">>)),
    CRLF(LineNoColon) \o CRLF(LineDIFF(NameA, <<"4">>)),
    CRLF(LineUnknown) \o CRLF(LineDIFF(NameA, <<"5">>)),
    CRLF(LineDIFF(NameA, <<"6">>)) \o CRLF(LineGET(NameA, <<"7">>)) }

InitLines == InitClient(FALSE, MaxOpsLines, MaxRecvLines)

NextLines ==
  \/ \E t \in TaskIds : read_loop_start(t)
  \/ \E t \in TaskIds : \E data \in ChunksLines : read_loop_data(t, data)
  \/ \E t \in TaskIds : read_loop_eof(t)
  \/ \E k \in 1..MaxConn : peer_close(k)
  \/ \E c \in Callers :
       \/ connect(c) \/ connect_done(c)
       \/ get_variable(c, NameA, "ok")
       \/ get_variable_resume(c)
       \/ get_variable_timeout(c)
       \/ get_info(c, <<"v">>, "ok")
       \/ get_info_resume(c)
       \/ get_info_timeout(c)
       \/ list_variables(c, "ok")
       \/ list_variables_done(c)

SpecLines == InitLines /\ [][NextLines]_vars

\* the call of the callbacks that a DIFF:A,<n> line makes
DiffCall(n) ==
  [name |-> NameA, value |-> IntVal(n), seen |-> IntVal(n),
   invoked |-> (IF HasKey(_callbacks, NameA)
                THEN Lookup(_callbacks, NameA) ELSE <<>>)
               \o _global_callbacks]

\* C22: in every state in which the receive loop takes a chunk, processing
\* a WARNING line, a line without colon or a line with an unknown command
\* changes nothing (connected flag, pending table, futures, cache,
\* subscriptions) and raises nothing; and when such a line arrives with a
\* DIFF line behind it in the chunk, the DIFF line is processed.
C22_BadLinesAreSkipped ==
  [][/\ recv' # <<>> =>
          /\ _process_response(Cur, LineWARNING) = Cur
          /\ _process_response(Cur, LineNoColon) = Cur
          /\ _process_response(Cur, LineUnknown) = Cur
     /\ \A n \in 3..5 :
          recv' = CRLF(IF n = 3 THEN LineWARNING
                       ELSE IF n = 4 THEN LineNoColon ELSE LineUnknown)
                  \o CRLF(LineDIFF(NameA, IntText(n)))
          => /\ calls' = <<DiffCall(n)>>
             /\ _variables'[NameA] = IntVal(n)]_vars
\* a WARNING line and the DIFF behind it have arrived while a get_variable
\* was pending: the request is still pending on a connected client
C22_Witness ==
  /\ recv = CRLF(LineWARNING) \o CRLF(LineDIFF(NameA, <<"3">>))
  /\ _connected
  /\ \E c \in Callers :
       /\ pc[c] = "get_wait" /\ fut[c].st = "pending"
       /\ _pending_responses = Put(EmptyDict, KeyGET(NameA), c)
  /\ _variables = Put(EmptyDict, NameA, IntVal(3))

\* the slots of the requests that wait for a line of the PLC
RequestKeys == {KeyGET(NameA), KeyGET(NameB), KeyLIST, KeyGETINFO}

\* the client with a pending request of caller c registered on the error
\* slot in addition to what is registered
OnErrorSlot(c) ==
  [Cur EXCEPT !.pend = Put(@, KeyError, c), !.fut[c] = NewFuture]

LastUpdate ==
  { <<CRLF(LineGET(NameA, <<"1">>)), 1>>,
    <<CRLF(LineDIFF(NameA, <<"2">>)), 2>>,
    <<CRLF(LineWARNING) \o CRLF(LineDIFF(NameA, <<"3">>)), 3>>,
    <<CRLF(LineNoColon) \o CRLF(LineDIFF(NameA, <<"4">>)), 4>>,
    <<CRLF(LineUnknown) \o CRLF(LineDIFF(NameA, <<"5">>)), 5>>,
    <<CRLF(LineDIFF(NameA, <<"6">>)) \o CRLF(LineGET(NameA, <<"7">>)), 7>> }
\* the cache after a LIST line that names name
Listed(name) ==
  IF name \in DOMAIN _variables THEN _variables
  ELSE Put(_variables, name, NoneVal)

\* C30: a chunk with GET or DIFF lines for "A" leaves in the cache, under
\* "A", the parsed value of the last of them, whether or not a request is
\* pending, and changes no other entry; a LIST line leaves the value of a
\* name that is cached and stores None for a name that is not; an ERROR or
\* GETINFO line and every step that receives nothing (a timeout, the loss
\* of the connection, a new connection) leave the cache as it is.
C30_CacheHoldsLastUpdate ==
  [][/\ \A u \in LastUpdate :
          recv' = u[1] => _variables' = Put(_variables, NameA, IntVal(u[2]))
     /\ recv' = CRLF(LineListA) => _variables' = Listed(NameA)
     /\ recv' = CRLF(LineListBool) => _variables' = Listed(NameB)
     /\ recv' \in {<<>>, CRLF(LineERROR), CRLF(LineGETINFO)}
          => _variables' = _variables]_vars
\* a LIST line for "A" has arrived after the answer GET:A,1 with no request
\* pending: the cache still holds 1
C30_Witness ==
  /\ recv = CRLF(LineListA)
  /\ _variables = Put(EmptyDict, NameA, IntVal(1))
  /\ _pending_responses = EmptyDict

(***************************************************************************)
(* SpecMon: monitoring.  Callers connect, register the global callback     *)
(* "g", enable monitoring of "A" with and without a delta and a callback,  *)
(* and disable it; the PLC pushes DIFF:A,2.                                *)
(***************************************************************************)
MaxOpsMon  == 4   \* operations started by callers in one behaviour
MaxRecvMon == 1   \* chunks received from the PLC in one behaviour
DeltasMon == {IntVal(0), IntVal(5), FloatVal(5, 1), IntVal(-1)}

InitMon == InitClient(FALSE, MaxOpsMon, MaxRecvMon)

NextMon ==
  \/ \E t \in TaskIds : read_loop_start(t)
  \/ \E t \in TaskIds : read_loop_data(t, CRLF(LineDIFF(NameA, <<"2">>)))
  \/ \E c \in Callers :
       \/ connect(c) \/ connect_done(c)
       \/ register_callback(c, "g", <<>>)
       \/ \E delta \in DeltasMon : \E callback \in {"", "f"} :
            \E d \in {"ok", "suspend"} :
              enable_monitoring(c, NameA, delta, callback, d)
       \/ enable_monitoring_drained(c)
       \/ \E d \in {"ok", "suspend"} : disable_monitoring(c, NameA, d)
       \/ disable_monitoring_drained(c)

SpecMon == InitMon /\ [][NextMon]_vars

\* the line enable_monitoring("A", delta) must write
EnLine(delta) ==
  IF delta = IntVal(5) THEN <<"E","N",":","A"," ","5",CR,LF>>
  ELSE IF delta = FloatVal(5, 1)
  THEN <<"E","N",":","A"," ","0",".","5",CR,LF>>
  ELSE <<"E","N",":","A",CR,LF>>
\* the per-variable callbacks of name
CallbacksOf(name) ==
  IF HasKey(_callbacks, name) THEN Lookup(_callbacks, name) ELSE <<>>

\* C26: on a connected client enable_monitoring("A", delta, callback) adds
\* callback, when given, at the end of the callbacks of "A" and writes the
\* one line EN:A, with a space and delta behind it only when delta > 0;
\* disable_monitoring("A") leaves no per-variable callback of "A" and
\* writes the one line DI:A; and while "A" has no per-variable callback, an
\* update DIFF:A,2 calls the global callbacks and nothing else.
C26_Monitoring ==
  [][/\ \A c \in Callers : \A delta \in DeltasMon :
          \A callback \in {"", "f"} : \A d \in {"ok", "suspend"} :
            (/\ _connected /\ _writer # 0
             /\ enable_monitoring(c, NameA, delta, callback, d))
            => /\ wire' = <<EnLine(delta)>>
               /\ _callbacks' =
                    IF callback = "" THEN _callbacks
                    ELSE IF _callbacks = <<>>
                    THEN <<[k |-> NameA, v |-> <<"f">>]>>
                    ELSE <<[k |-> NameA, v |-> _callbacks[1].v \o <<"f">>]>>
               /\ _global_callbacks' = _global_callbacks
     /\ \A c \in Callers : \A d \in {"ok", "suspend"} :
          (/\ _connected /\ _writer # 0
           /\ disable_monitoring(c, NameA, d))
          => /\ wire' = <<<<"D","I",":","A",CR,LF>>>>
             /\ _callbacks' = <<>>
             /\ _global_callbacks' = _global_callbacks
     /\ (recv' # <<>> /\ CallbacksOf(NameA) = <<>>)
          => calls' = <<[name |-> NameA, value |-> IntVal(2),
                         seen |-> IntVal(2),
                         invoked |-> _global_callbacks]>>]_vars
\* after enable_monitoring with callback "f" and disable_monitoring, with
\* the global callback "g" registered, DIFF:A,2 has called "g" alone
C26_Witness ==
  /\ recv = CRLF(LineDIFF(NameA, <<"2">>))
  /\ ops = 0
  /\ _callbacks = <<>>
  /\ calls = <<[name |-> NameA, value |-> IntVal(2), seen |-> IntVal(2),
                invoked |-> <<"g">>]>>

(***************************************************************************)
(* The response lock.  No critical section of the client contains an       *)
(* await, so the lock is free between any two steps; what a step does      *)
(* inside "async with self._response_lock" is told by the code it runs.    *)
(***************************************************************************)
\* the step runs code that changes the tables inside the lock and no code
\* that changes them outside: a caller inside get_variable, list_variables
\* or get_info registers its request (lines 425, 468, 537) or removes it
\* (432, 436, 477, 544), or the receive loop handles lines (243, 265, 317)
\* and does not go on to _handle_disconnect (195-198, no lock)
LockedStep ==
  \/ \E c \in Callers :
       /\ InRequest(c) \/ InRequest(c)'
          \/ (pc[c] = "idle" /\ ret'[c].op \in {"get", "list", "info"})
       /\ pc'[c] # pc[c] \/ ret'[c] # NoRet
  \/ recv' # <<>> /\ _connected' = _connected

\* C29: every step that changes the pending table or the subscription
\* table changes them inside the response lock.
C29_TablesChangeUnderLock ==
  [][(_pending_responses' # _pending_responses \/ _callbacks' # _callbacks)
       => LockedStep]_vars

(***************************************************************************)
(* SpecPersist: what outlives a connection.  The operations of SpecDisc    *)
(* with a global callback "g" and the push DIFF:A,2 from the PLC: callers  *)
(* connect, register callbacks and disconnect, the PLC closes connections  *)
(* and the client reconnects.                                              *)
(***************************************************************************)
MaxOpsPersist  == 3   \* operations started by callers in one behaviour
MaxRecvPersist == 1   \* chunks received from the PLC in one behaviour

InitPersist == InitClient(TRUE, MaxOpsPersist, MaxRecvPersist)

NextPersist ==
  \/ NextDisc
  \/ \E t \in TaskIds : read_loop_data(t, CRLF(LineDIFF(NameA, <<"2">>)))
  \/ \E c \in Callers : register_callback(c, "g", <<>>)

SpecPersist == InitPersist /\ [][NextPersist]_vars

\* C31: only register_callback changes the subscription table and only a
\* received line changes the cache: the loss of the connection, the steps
\* of the reconnection task and of disconnect() leave both as they are; and
\* on every connection, the first or a later one, DIFF:A,2 is dispatched to
\* the callbacks of "A" and the global callbacks registered at that time.
C31_TablesOutliveConnection ==
  [][/\ (\A c \in Callers : ret'[c].op # "register")
          => /\ _callbacks' = _callbacks
             /\ _global_callbacks' = _global_callbacks
     /\ recv' = <<>> => _variables' = _variables
     /\ recv' # <<>>
          => /\ calls' = <<DiffCall(2)>>
             /\ _variables' = Put(_variables, NameA, IntVal(2))]_vars
\* callbacks "f" for "A" and "g" were registered on the first connection;
\* it was lost, the client reconnected, and DIFF:A,2 on the second
\* connection has called "f" and "g"
C31_Witness ==
  /\ conn = <<"closed", "open">>
  /\ _reconnect_task # 0
  /\ recv = CRLF(LineDIFF(NameA, <<"2">>))
  /\ calls = <<[name |-> NameA, value |-> IntVal(2), seen |-> IntVal(2),
                invoked |-> <<"f", "g">>]>>

\* a receive loop of the client is alive (it has not ended and is not
\* cancelled) and, when it waits for data, waits on connection k
LoopOn(k) ==
  \E t \in 1..Len(rtask) :
    /\ rtask[t].st \in {"start", "read"}
    /\ ~rtask[t].cancel
    /\ rtask[t].st = "read" => rtask[t].conn = k

\* C32: whenever the client is connected it holds a writer, its reader is
\* the stream of the same connection, and a receive loop is alive on that
\* connection.
C32_ConnectedCanSendAndReceive ==
  _connected =>
    /\ _writer # 0
    /\ _reader = _writer
    /\ LoopOn(_writer)

(***************************************************************************)
(* SpecResub: resubscription of what the coordinator monitors.  A task of  *)
(* the integration connects; the coordinator enables monitoring of its     *)
(* variable "A" as TecomatDataUpdateCoordinator._enable_monitoring does,   *)
(* with neither delta nor callback, and then waits for updates; another    *)
(* task registers a callback for "B".  connect() is called once; the PLC   *)
(* closes connections and the client reconnects; the drain of the EN       *)
(* command of the reconnection task may suspend.                           *)
(***************************************************************************)
MaxOpsResub == 3   \* operations started by callers in one behaviour

\* coordinator.py 94-106 with _variables = ["A"]: enable_monitoring("A") is
\* awaited (plccoms.py 504-507, nothing to append at 499-502), an exception
\* is logged as a warning, and the coordinator goes on waiting for updates;
\* the label tells which of the two log lines was written
coordinator_enable_monitoring(c) ==
  /\ Begin(c)
  /\ LET s1 == _send_command(Cur, CmdEN(NameA))
     IN IF s1.exc # ""
        THEN /\ Commit([s1 EXCEPT !.exc = ""])
             /\ Suspend(c, "monitoring_failed", NoArg)
        ELSE /\ Commit(s1)
             /\ IF "ok" \in DrainOutcomes(s1, s1.writer)
                THEN Suspend(c, "monitoring", NoArg)
                ELSE Suspend(c, "monitoring_failed", NoArg)
  /\ UNCHANGED <<_callbacks, _global_callbacks>>

InitResub == InitClient(TRUE, MaxOpsResub, 0)

\* no task has called connect() yet
NeverConnected ==
  /\ conn = <<>>
  /\ \A c \in Callers : pc[c] # "connecting"
\* the one connect() call of the integration
connect_once(c) == NeverConnected /\ connect(c)

NextResub ==
  \/ \E t \in TaskIds : read_loop_start(t)
  \/ \E t \in TaskIds : read_loop_eof(t)
  \/ \E k \in TaskIds : peer_close(k)
  \/ \E t \in TaskIds : reconnect_start(t)
  \/ \E t \in TaskIds : \E stopAt \in {0, 1} : reconnect_wake(t, stopAt)
  \/ \E t \in TaskIds : \E stopAt \in {0, 1} :
       reconnect_connected(t, stopAt)
  \/ \E t \in TaskIds : reconnect_drained(t, 0)
  \/ \E c \in Callers :
       \/ connect_once(c) \/ connect_done(c)
       \/ register_callback(c, "f", NameB)
       \/ coordinator_enable_monitoring(c)

SpecResub == InitResub /\ [][NextResub]_vars

\* the reconnection task t opens a new connection in this step
Reconnected(t) ==
  /\ ctask[t].st = "connecting"
  /\ Len(conn') = Len(conn) + 1

\* C33: when the reconnection task opens a new connection while the
\* coordinator monitors "A" (its enable_monitoring succeeded, nobody
\* disabled it), the task writes EN:A on the new connection, unless the
\* drain of an earlier EN command suspends it first.
C33_MonitoredIsResubscribed ==
  [][\A t \in 1..Len(ctask) :
       (Reconnected(t) /\ \E c \in Callers : pc[c] = "monitoring")
         => \/ \E i \in 1..Len(wire') :
                 wire'[i] = <<"E","N",":","A",CR,LF>>
            \/ ctask'[t].st = "en_drain"]_vars

\* the reconnection tasks that have not ended and are not cancelled
LiveReconnectTasks ==
  {t \in 1..Len(ctask) : ctask[t].st # "done" /\ ~ctask[t].cancel}

\* C34: at most one reconnection task is alive, and it is the task that
\* _reconnect_task names, the one disconnect() cancels.
C34_OneReconnectTask ==
  /\ Cardinality(LiveReconnectTasks) <= 1
  /\ LiveReconnectTasks \subseteq {_reconnect_task}

\* the get_variable, get_info or list_variables call that caller c is in
\* ends in this step
RequestEnds(c) == InRequest(c) /\ pc'[c] = "idle"

\* C35: when the call a caller is in ends, the unresolved request of
\* another caller that is registered in the pending table (under the same
\* key it was registered later, under another key at any time) stays
\* registered.
C35_CleanupRemovesOwnEntry ==
  [][\A c \in Callers : \A d \in Callers \ {c} :
       (RequestEnds(c) /\ InFlight(d) /\ Registered(d))
         => /\ KeyOf(d) \in DOMAIN _pending_responses'
            /\ _pending_responses'[KeyOf(d)] = d]_vars

(***************************************************************************)
(* SpecInfo: the two get_info calls of the coordinator's setup.  After the *)
(* one connect() the coordinator asks for "p" (version_plc) and then for   *)
(* "m" (version), as TecomatDataUpdateCoordinator._async_setup does.  The  *)
(* PLC answers what it was asked, once each and in the order of the        *)
(* requests, at any time after the request, and may close the connection;  *)
(* another task registers callbacks.                                       *)
(***************************************************************************)
MaxOpsInfo  == 3   \* operations started by callers in one behaviour
MaxRecvInfo == 2   \* chunks received from the PLC in one behaviour
ParamP == <<"p">>
ParamM == <<"m">>
AnswerP == <<"p","=","1">>
AnswerM == <<"m","=","2">>

\* coordinator.py 75: get_info("version_plc") registers, sends and waits
\* (plccoms.py 533-542)
setup_version_plc(c) ==
  /\ Begin(c)
  /\ _connected
  /\ RequestCall(c, "plc", KeyGETINFO, CmdGETINFO(ParamP), ParamP, "ok")
  /\ UNCHANGED <<_callbacks, _global_callbacks>>

\* coordinator.py 75-80: the first call ends with a result, or with an
\* exception that is logged (plccoms.py 543-545), and get_info("version")
\* registers, sends and waits (533-542); when its send fails the exception
\* is logged (coordinator.py 82-83) and the setup goes on without the model
setup_version(c) ==
  /\ pc[c] = "plc_wait"
  /\ LET s0 == Cleanup(Cur, c, KeyGETINFO)
         s1 == [s0 EXCEPT !.fut[c] = NewFuture,
                          !.pend = Put(@, KeyGETINFO, c)]
         s2 == _send_command(s1, CmdGETINFO(ParamM))
     IN IF s2.exc # "" \/ "ok" \notin DrainOutcomes(s2, s2.writer)
        THEN /\ Commit(Cleanup(s2, c, KeyGETINFO))
             /\ ReturnNamed(c, Ret("model", "ConnectionError"), ParamM)
        ELSE /\ Commit(s2)
             /\ Suspend(c, "model_wait", [name |-> ParamM, conn |-> 0])
  /\ UNCHANGED <<_callbacks, _global_callbacks, ops, rx>>
\* coordinator.py 80: the second call returns the payload, or raises
setup_version_resume(c)  == RequestResume(c, "model", KeyGETINFO)
setup_version_timeout(c) == RequestTimeout(c, "model", KeyGETINFO)

\* the PLC answers the request for "p": the request was sent and no answer
\* yet
plc_answers_p(t) ==
  /\ rx = MaxRecvInfo
  /\ \E c \in Callers : pc[c] \in {"plc_wait", "model_wait"}
  /\ read_loop_data(t, CRLF(<<"G","E","T","I","N","F","O",":">> \o AnswerP))
\* the PLC answers the request for "m": the request was sent and "p" was
\* answered
plc_answers_m(t) ==
  /\ rx = MaxRecvInfo - 1
  /\ \E c \in Callers : pc[c] = "model_wait"
  /\ read_loop_data(t, CRLF(<<"G","E","T","I","N","F","O",":">> \o AnswerM))

InitInfo == InitClient(FALSE, MaxOpsInfo, MaxRecvInfo)

NextInfo ==
  \/ \E t \in TaskIds : read_loop_start(t)
  \/ \E t \in TaskIds : plc_answers_p(t)
  \/ \E t \in TaskIds : plc_answers_m(t)
  \/ \E t \in TaskIds : read_loop_eof(t)
  \/ \E k \in TaskIds : peer_close(k)
  \/ \E c \in Callers :
       \/ connect_once(c) \/ connect_done(c)
       \/ \E name \in {NameA, <<>>} : register_callback(c, "g", name)
       \/ setup_version_plc(c)
       \/ setup_version(c)
       \/ setup_version_resume(c)
       \/ setup_version_timeout(c)

SpecInfo == InitInfo /\ [][NextInfo]_vars

\* C36: the payload that get_info("m") returns is the PLC's answer to the
\* request for "m".
C36_GetInfoReturnsOwnAnswer ==
  [][\A c \in Callers :
       (ret'[c].op = "model" /\ ret'[c].kind = "value")
         => ret'[c].v = StrVal(AnswerM)]_vars

(***************************************************************************)
(* SpecOrder: order of dispatch.  Callers connect, register the callback   *)
(* "f" for "A" and the global callback "g", and issue get_variable("A");   *)
(* the PLC sends chunks that hold two update lines each.                   *)
(***************************************************************************)
MaxOpsOrder  == 3   \* operations started by callers in one behaviour
MaxRecvOrder == 2   \* chunks received from the PLC in one behaviour
\* the two updates of a chunk, each as <<command, name, text, value>>
UpdatesOrder ==
  { << <<"DIFF", NameA, <<"6">>, IntVal(6)>>,
       <<"GET",  NameA, <<"7">>, IntVal(7)>> >>,
    << <<"GET",  NameA, <<"1">>, IntVal(1)>>,
       <<"DIFF", NameA, <<"2">>, IntVal(2)>> >>,
    << <<"DIFF", NameB, <<"t","r","u","e">>, BoolVal(TRUE)>>,
       <<"DIFF", NameA, <<"2">>, IntVal(2)>> >> }
LineOrder(u) ==
  IF u[1] = "GET" THEN LineGET(u[2], u[3]) ELSE LineDIFF(u[2], u[3])
ChunkOrder(us) == CRLF(LineOrder(us[1])) \o CRLF(LineOrder(us[2]))

InitOrder == InitClient(FALSE, MaxOpsOrder, MaxRecvOrder)

NextOrder ==
  \/ \E t \in TaskIds : read_loop_start(t)
  \/ \E t \in TaskIds : \E us \in UpdatesOrder :
       read_loop_data(t, ChunkOrder(us))
  \/ \E c \in Callers :
       \/ connect(c) \/ connect_done(c)
       \/ register_callback(c, "f", NameA)
       \/ register_callback(c, "g", <<>>)
       \/ get_variable(c, NameA, "ok")
       \/ get_variable_resume(c)
       \/ get_variable_timeout(c)

SpecOrder == InitOrder /\ [][NextOrder]_vars

\* the call of the callbacks that the update u makes: the callbacks of the
\* name, then the global ones, with the cache holding the new value
CallOrder(u) ==
  [name |-> u[2], value |-> u[4], seen |-> u[4],
   invoked |-> Dispatched(u[2])]

\* C37: a chunk with two GET/DIFF lines makes exactly two calls of the
\* callbacks, in the order of the lines, each to all callbacks of its name
\* followed by the global ones before the next line is processed, and in
\* every call the cache already holds the new value of the variable.
C37_DispatchInArrivalOrder ==
  [][/\ \A us \in UpdatesOrder :
          recv' = ChunkOrder(us)
          => calls' = <<CallOrder(us[1]), CallOrder(us[2])>>
     /\ \A i \in 1..Len(calls') : calls'[i].seen = calls'[i].value]_vars
\* DIFF:A,6 and GET:A,7 have arrived in one chunk with "f" registered for
\* "A" and "g" globally: two calls, 6 before 7, and the cache holds 7
C37_Witness ==
  /\ recv = ChunkOrder(CHOOSE us \in UpdatesOrder : us[1][4] = IntVal(6))
  /\ Len(calls) = 2
  /\ calls[1].value = IntVal(6) /\ calls[1].seen = IntVal(6)
  /\ calls[2].value = IntVal(7) /\ calls[2].seen = IntVal(7)
  /\ calls[1].invoked = <<"f", "g">> /\ calls[2].invoked = <<"f", "g">>
  /\ _variables = Put(EmptyDict, NameA, IntVal(7))

(***************************************************************************)
(* SpecReentry: callbacks that change the registrations.  The callback     *)
(* "once" is a one-shot listener: when it is invoked it calls              *)
(* unregister_callback for itself, with the name it was registered for.    *)
(* Callers connect and register "f" and "once" for "A" or globally; the    *)
(* PLC pushes DIFF:A,2.                                                    *)
(***************************************************************************)
MaxOpsReentry  == 3   \* operations started by callers in one behaviour
MaxRecvReentry == 1   \* chunks received from the PLC in one behaviour
OneShot == {"once"}

\* "for callback in lst: callback(...)" over the list object itself: the
\* iterator holds an index into lst, and a one-shot callback removes its
\* first occurrence from lst (list.remove, lines 580 and 585) while the
\* loop runs.  The result is the list afterwards and the callbacks invoked.
RECURSIVE IterLive(_, _, _)
IterLive(lst, i, invoked) ==
  IF i > Len(lst) THEN [lst |-> lst, invoked |-> invoked]
  ELSE IterLive(IF lst[i] \in OneShot THEN RemoveFirst(lst, lst[i]) ELSE lst,
                i + 1, Append(invoked, lst[i]))

\* read() returns a chunk that holds one update line: lines 169-177 with
\* the two loops of _notify_callbacks run over the live lists
read_loop_data_live(t, data) ==
  /\ t \in 1..Len(rtask)
  /\ rtask[t].st = "read" /\ ~rtask[t].cancel
  /\ conn[rtask[t].conn] = "open"
  /\ rx > 0
  /\ rx' = rx - 1
  /\ LET s1 == ProcessLines([Cur EXCEPT !.buffer = @ \o Decode(data),
                                        !.recv = data])
         name == s1.calls[1].name
         r1 == IterLive(OwnCallbacks(name), 1, <<>>)
         r2 == IterLive(_global_callbacks, 1, r1.invoked)
     IN /\ Len(s1.calls) = 1 /\ s1.exc = ""
        /\ Commit(ReadLoopTop([s1 EXCEPT !.calls[1].invoked = r2.invoked],
                              t))
        /\ _callbacks' = [i \in 1..Len(_callbacks) |->
                            IF _callbacks[i].k = name
                            THEN [k |-> name, v |-> r1.lst]
                            ELSE _callbacks[i]]
        /\ _global_callbacks' = r2.lst
  /\ UNCHANGED <<pc, arg, ops>>
  /\ ret' = NoRets

InitReentry == InitClient(FALSE, MaxOpsReentry, MaxRecvReentry)

NextReentry ==
  \/ \E t \in TaskIds : read_loop_start(t)
  \/ \E t \in TaskIds :
       read_loop_data_live(t, CRLF(LineDIFF(NameA, <<"2">>)))
  \/ \E c \in Callers :
       \/ connect_once(c) \/ connect_done(c)
       \/ \E callback \in {"f", "once"} : \E name \in {NameA, <<>>} :
            register_callback(c, callback, name)

SpecReentry == InitReentry /\ [][NextReentry]_vars

\* C38: when DIFF:A,2 arrives, the callbacks invoked are the callbacks
\* registered for "A" followed by the global callbacks as they were
\* registered when the dispatch started, each registration once, also when
\* a callback unregisters itself during the dispatch.
C38_RegisteredAreInvokedOnce ==
  [][recv' # <<>>
     => /\ Len(calls') = 1
        /\ calls'[1].invoked = Dispatched(NameA)]_vars

\* a step in which caller c calls enable_monitoring or disable_monitoring
\* on a client that is not connected: the call raises, nothing is written
RefusedSubscription(c) ==
  /\ pc[c] = "idle"
  /\ ~(_connected /\ _writer # 0)
  /\ ret'[c].op \in {"en", "di"}
  /\ ret'[c].kind = "ConnectionError"

\* C39: every call of enable_monitoring or disable_monitoring that raises
\* ConnectionError because the client is not connected writes nothing and
\* leaves the subscription table as it was before the call.
C39_RefusedCallKeepsSubscriptions ==
  [][\A c \in Callers :
       RefusedSubscription(c)
       => /\ wire' = <<>>
          /\ _callbacks' = _callbacks]_vars

(***************************************************************************)
(* SpecBuffer: the read buffer across connections.  The first connection   *)
(* delivers the beginning of a DIFF line and is lost; callers and the      *)
(* reconnection task open further connections, on which the PLC sends a    *)
(* chunk that would complete the line.                                     *)
(***************************************************************************)
MaxOpsBuffer  == 2   \* operations started by callers in one behaviour
MaxRecvBuffer == 2   \* chunks received from the PLC in one behaviour
HeadBuffer == <<"D","I">>
TailBuffer == <<"F","F",":","A",",","3",CR,LF>>

\* the first chunk of a behaviour arrives on the first connection
old_connection_data(t) ==
  /\ rx = MaxRecvBuffer
  /\ t \in 1..Len(rtask)
  /\ rtask[t].conn = 1
  /\ read_loop_data(t, HeadBuffer)
\* the later chunks arrive on later connections
new_connection_data(t) ==
  /\ rx < MaxRecvBuffer
  /\ t \in 1..Len(rtask)
  /\ rtask[t].conn > 1
  /\ read_loop_data(t, TailBuffer)

InitBuffer == InitClient(TRUE, MaxOpsBuffer, MaxRecvBuffer)

NextBuffer ==
  \/ \E t \in TaskIds : read_loop_start(t)
  \/ \E t \in TaskIds : old_connection_data(t)
  \/ \E t \in TaskIds : new_connection_data(t)
  \/ \E t \in TaskIds : read_loop_eof(t)
  \/ \E k \in TaskIds : peer_close(k)
  \/ \E t \in TaskIds : reconnect_start(t)
  \/ \E t \in TaskIds : reconnect_wake(t, 0)
  \/ \E t \in TaskIds : reconnect_connected(t, 0)
  \/ \E c \in Callers : connect(c) \/ connect_done(c)

SpecBuffer == InitBuffer /\ [][NextBuffer]_vars

\* C40: every step that opens a connection empties the read buffer,
\* whatever the lost connection left in it; a receive loop that starts
\* after the loops of the earlier connections have ended finds the buffer
\* empty; and when the rest of a line whose beginning arrived on the first
\* connection arrives on a later connection, read by the only receive loop
\* there is, no line is dispatched, the cache stays as it is and the rest
\* alone is consumed.
C40_BufferStartsEmpty ==
  [][/\ Len(conn') > Len(conn) => _buffer' = <<>>
     /\ \A t \in 1..Len(rtask) :
          /\ rtask[t].st = "start" /\ rtask'[t].st = "read"
          /\ \A u \in 1..Len(rtask) : u # t => rtask[u].st = "done"
          => _buffer = <<>>
     /\ recv' = TailBuffer /\ OneReader
          => /\ calls' = <<>>
             /\ _variables' = _variables
             /\ _buffer' = <<>>]_vars
\* "DI" arrived on the first connection, which was lost; the rest of the
\* line has arrived on the second connection and nothing was dispatched
C40_Witness ==
  /\ recv = TailBuffer
  /\ Len(conn) = 2 /\ conn[1] = "closed" /\ conn[2] = "open"
  /\ rx = MaxRecvBuffer - 2
  /\ rtask[1].st = "done" /\ rtask[2].st = "read"
  /\ calls = <<>>
  /\ _variables = EmptyDict
  /\ _buffer = <<>>

====
